---- MODULE Spec2Model ----
(***************************************************************************)
(* countly-server api/api.js: the master process that forks and respawns   *)
(* the API workers, and, inside a worker, the /i/bulk pipeline of          *)
(* processRequest with the response handle shared by its sub-requests.     *)
(*                                                                         *)
(* The master and the request pipeline of a worker are different           *)
(* processes; each has its own specification (SpecSup, SpecBulk) over its  *)
(* own variables, the other group of variables being left unchanged.       *)
(***************************************************************************)
EXTENDS Integers, Sequences, FiniteSets, TLC

\* ------------------------------------------------------------------ bounds
\* largest configured worker count and largest number of CPU cores
MaxWorkers == 3
\* number of worker processes that may die in one behaviour
MaxExits == 3
\* largest number of elements of the `requests` array
MaxBatch == 2
\* largest number of promises registered on one sub-request's tmpParams
MaxPromises == 2
\* largest number of ResponseCoordinator calls made on one context
MaxCalls == 4

VARIABLES
    \* ---- master process (api.js 12, 135-166)
    mpc,          \* "boot" before the cluster.isMaster block ran, then "running"
    cfgWorkers,   \* countlyConfig.api.workers; 0 stands for unset (falsy)
    cpus,         \* os.cpus().length
    workers,      \* let workers = []: sequence of worker handles
    listeners,    \* worker handle -> number of 'message' listeners passToMaster attached
    nforks,       \* number of cluster.fork() calls so far; handles are 1..nforks
    exited,       \* worker processes that have terminated
    pendingExit,  \* cluster 'exit' events emitted and not yet handled
    handled,      \* workers whose 'exit' event the master has handled
    relay,        \* the last 'message' handler that ran: where, for which worker,
                  \* on which message, and what it did, in order
    \* ---- one /i/bulk request inside a worker (api.js 254-329)
    safe,         \* plugins.getConfig("api").safe, fixed for the lifetime of the request
    payload,      \* params.qstring.requests as received
    requests,     \* var requests after JSON.parse, when it is an array
    appKey,       \* params.qstring.app_key, the shared app key
    pc,           \* position of the pipeline
    i,            \* argument of the running processBulkRequest(i)
    finished,     \* params.res.finished
    blocked,      \* buffering mode of the ResponseCoordinator on params
    recorded,     \* writes recorded while buffering, oldest first
    socket,       \* terminal writes that reached the socket, oldest first
    reqBody,      \* params.req.body
    tmpParams,    \* index -> the tmpParams built by processBulkRequest(index)
    promises,     \* index -> how many promises of tmpParams.promises are pending,
                  \* resolved, rejected (Promise.all does not tell its elements apart)
    log           \* what the pipeline did, in program order

VARIABLES
    reqMethod,    \* req.method
    fields,       \* the body fields form.parse hands to its callback
    configPath,   \* common.config.path, as path segments
    url,          \* urlParts.pathname.split("/")
    paths,        \* the split path, the configured prefix removed
    qstring,      \* params.qstring
    parsed,       \* the qstring fields replaced by their parsed JSON
    apiPath,      \* params.apiPath, as path segments
    fullPath,     \* params.fullPath, as path segments
    cancelRequest,\* params.cancelRequest
    rpc,          \* position of the request in the dispatcher
    calls,        \* what the dispatcher invoked for the request, in order
    app_user_id   \* params.app_user_id

supVars == <<mpc, cfgWorkers, cpus, workers, listeners, nforks, exited, pendingExit, handled,
             relay>>
bulkVars == <<safe, payload, requests, appKey, pc, i, finished, blocked, recorded,
              socket, reqBody, tmpParams, promises, log>>
reqVars == <<reqMethod, fields, configPath, url, paths, qstring, parsed, apiPath, fullPath, cancelRequest, rpc,
             calls, app_user_id>>
vars == <<supVars, bulkVars, reqVars>>

\* ---------------------------------------------------------------- helpers
Range(s) == {s[k] : k \in DOMAIN s}

\* Array.prototype.filter((w) => w !== worker)
RECURSIVE FilterOut(_, _)
FilterOut(s, w) ==
    IF s = <<>> THEN <<>>
    ELSE IF Head(s) = w THEN FilterOut(Tail(s), w)
         ELSE <<Head(s)>> \o FilterOut(Tail(s), w)

\* ============================================================== the master
\* const workerCount = (countlyConfig.api.workers) ? countlyConfig.api.workers : os.cpus().length
workerCountCpusOnly == cpus
workerCount == IF cfgWorkers # 0 THEN cfgWorkers ELSE cpus

\* for (i < workerCount) { worker = cluster.fork(); workers.push(worker) }
ForkLoop(n) == [k \in 1..n |-> k]

\* workers.forEach(passToMaster): one 'message' listener on every worker of the array
AttachAll(ws) == [w \in Range(ws) |-> 1]

\* the cluster.isMaster block up to the registration of the 'exit' handler;
\* it is synchronous, so no event is handled before it has completed
MasterStart ==
    /\ mpc = "boot"
    /\ workers' = ForkLoop(workerCount)
    /\ nforks' = workerCount
    /\ listeners' = AttachAll(workers')
    /\ mpc' = "running"
    /\ UNCHANGED <<cfgWorkers, cpus, exited, pendingExit, handled, relay>>
    /\ UNCHANGED <<bulkVars, reqVars>>

\* a worker process terminates (uncaughtException handler: process.exit(1));
\* cluster then emits 'exit' for it
WorkerExit(w) ==
    /\ mpc = "running"
    /\ w \in 1..nforks
    /\ w \notin exited
    /\ Cardinality(exited) < MaxExits
    /\ exited' = exited \cup {w}
    /\ pendingExit' = pendingExit \cup {w}
    /\ UNCHANGED <<mpc, cfgWorkers, cpus, workers, listeners, nforks, handled, relay>>
    /\ UNCHANGED <<bulkVars, reqVars>>

\* cluster.on('exit', (worker) => {...})
OnExitNoFork(w) ==
    /\ mpc = "running"
    /\ w \in pendingExit
    /\ pendingExit' = pendingExit \ {w}
    /\ handled' = handled \cup {w}
    /\ workers' = FilterOut(workers, w)
    /\ UNCHANGED <<mpc, cfgWorkers, cpus, listeners, nforks, exited, relay>>
    /\ UNCHANGED <<bulkVars, reqVars>>
OnExitNoFilter(w) ==
    /\ mpc = "running"
    /\ w \in pendingExit
    /\ pendingExit' = pendingExit \ {w}
    /\ handled' = handled \cup {w}
    /\ LET newWorker == nforks + 1
       IN /\ nforks' = newWorker
          /\ workers' = Append(workers, newWorker)
          /\ listeners' = (newWorker :> 1) @@ listeners
    /\ UNCHANGED <<mpc, cfgWorkers, cpus, exited, relay>>
    /\ UNCHANGED <<bulkVars, reqVars>>
OnExitForkTwice(w) ==
    /\ mpc = "running"
    /\ w \in pendingExit
    /\ pendingExit' = pendingExit \ {w}
    /\ handled' = handled \cup {w}
    /\ LET newWorker == nforks + 2
       IN /\ nforks' = newWorker
          /\ workers' = Append(Append(FilterOut(workers, w), nforks + 1), newWorker)
          /\ listeners' = (newWorker :> 1) @@ ((nforks + 1) :> 1) @@ listeners
    /\ UNCHANGED <<mpc, cfgWorkers, cpus, exited, relay>>
    /\ UNCHANGED <<bulkVars, reqVars>>
OnExit(w) ==
    /\ mpc = "running"
    /\ w \in pendingExit
    /\ pendingExit' = pendingExit \ {w}
    /\ handled' = handled \cup {w}
    /\ LET newWorker == nforks + 1
       IN /\ nforks' = newWorker
          /\ workers' = Append(FilterOut(workers, w), newWorker)
          /\ listeners' = (newWorker :> 1) @@ listeners
    /\ UNCHANGED <<mpc, cfgWorkers, cpus, exited, relay>>
    /\ UNCHANGED <<bulkVars, reqVars>>

\* ------------------------------------------------------- control messages
\* {cmd, config?, event?}: a field that is missing or empty is NoField
NoField == ""
ControlMsg(cmd, config, event) == [cmd |-> cmd, config |-> config, event |-> event]
ControlMessages ==
    {ControlMsg("log", "cfg", NoField),
     ControlMsg("checkPlugins", NoField, NoField),
     ControlMsg("startPlugins", NoField, NoField),
     ControlMsg("endPlugins", NoField, NoField),
     ControlMsg("dispatch", NoField, NoField),
     ControlMsg("dispatch", NoField, "/ev"),
     ControlMsg("other", NoField, NoField)}

\* what a handler did: w.send(msg) to a worker, or a call made in its own process
Send(w, msg) == [op |-> "send", to |-> w, msg |-> msg]
Local(op, msg) == [op |-> op, to |-> 0, msg |-> msg]
NoRelay == [side |-> "none", who |-> 0, msg |-> ControlMsg(NoField, NoField, NoField), ops |-> <<>>]

\* workers.forEach((w) => { w.send(msg) }), in array order
SendEach(ws, msg) == [k \in 1..Len(ws) |-> Send(ws[k], msg)]

\* the 'message' listener passToMaster(worker) attaches: what it does on msg
onMessageLogToAll(worker, msg) ==
    IF msg.cmd = "log"
    THEN SendEach(workers, ControlMsg("log", msg.config, NoField))
            \o <<Local("ipcHandler", msg)>>
    ELSE IF msg.cmd = "checkPlugins" THEN <<Local("checkPluginsMaster", msg)>>
    ELSE IF msg.cmd = "startPlugins" THEN <<Local("startSyncing", msg)>>
    ELSE IF msg.cmd = "endPlugins" THEN <<Local("stopSyncing", msg)>>
    ELSE IF msg.cmd = "dispatch" /\ msg.event # NoField THEN SendEach(workers, msg)
    ELSE <<>>
onMessageDispatchToOthers(worker, msg) ==
    IF msg.cmd = "log"
    THEN SendEach(FilterOut(workers, worker), ControlMsg("log", msg.config, NoField))
            \o <<Local("ipcHandler", msg)>>
    ELSE IF msg.cmd = "checkPlugins" THEN <<Local("checkPluginsMaster", msg)>>
    ELSE IF msg.cmd = "startPlugins" THEN <<Local("startSyncing", msg)>>
    ELSE IF msg.cmd = "endPlugins" THEN <<Local("stopSyncing", msg)>>
    ELSE IF msg.cmd = "dispatch" /\ msg.event # NoField
    THEN SendEach(FilterOut(workers, worker), msg)
    ELSE <<>>
onMessageAnyDispatch(worker, msg) ==
    IF msg.cmd = "log"
    THEN SendEach(FilterOut(workers, worker), ControlMsg("log", msg.config, NoField))
            \o <<Local("ipcHandler", msg)>>
    ELSE IF msg.cmd = "checkPlugins" THEN <<Local("checkPluginsMaster", msg)>>
    ELSE IF msg.cmd = "startPlugins" THEN <<Local("startSyncing", msg)>>
    ELSE IF msg.cmd = "endPlugins" THEN <<Local("stopSyncing", msg)>>
    ELSE IF msg.cmd = "dispatch" THEN SendEach(workers, msg)
    ELSE <<>>
onMessagePluginFanOut(worker, msg) ==
    IF msg.cmd = "log"
    THEN SendEach(FilterOut(workers, worker), ControlMsg("log", msg.config, NoField))
            \o <<Local("ipcHandler", msg)>>
    ELSE IF msg.cmd = "checkPlugins"
    THEN SendEach(workers, msg) \o <<Local("checkPluginsMaster", msg)>>
    ELSE IF msg.cmd = "startPlugins" THEN <<Local("startSyncing", msg)>>
    ELSE IF msg.cmd = "endPlugins" THEN <<Local("stopSyncing", msg)>>
    ELSE IF msg.cmd = "dispatch" /\ msg.event # NoField THEN SendEach(workers, msg)
    ELSE <<>>
onMessage(worker, msg) ==
    IF msg.cmd = "log"
    THEN SendEach(FilterOut(workers, worker), ControlMsg("log", msg.config, NoField))
            \o <<Local("ipcHandler", msg)>>
    ELSE IF msg.cmd = "checkPlugins" THEN <<Local("checkPluginsMaster", msg)>>
    ELSE IF msg.cmd = "startPlugins" THEN <<Local("startSyncing", msg)>>
    ELSE IF msg.cmd = "endPlugins" THEN <<Local("stopSyncing", msg)>>
    ELSE IF msg.cmd = "dispatch" /\ msg.event # NoField THEN SendEach(workers, msg)
    ELSE <<>>

\* every listener attached to the worker runs once
RECURSIVE Times(_, _)
Times(ops, n) == IF n = 0 THEN <<>> ELSE ops \o Times(ops, n - 1)

\* a live worker of the workers array sends msg (process.send) and the master's
\* listeners for that worker run
MasterOnMessage(worker, msg) ==
    /\ mpc = "running"
    /\ worker \in Range(workers)
    /\ worker \notin exited
    /\ relay' = [side |-> "master", who |-> worker, msg |-> msg,
                 ops |-> Times(onMessage(worker, msg), listeners[worker])]
    /\ UNCHANGED <<mpc, cfgWorkers, cpus, workers, listeners, nforks, exited, pendingExit,
                   handled>>
    /\ UNCHANGED <<bulkVars, reqVars>>

\* the two 'message' listeners of a worker process: common.log.ipcHandler, then
\* the handler of lines 175-182
workerOnMessage(msg) ==
    <<Local("ipcHandler", msg)>> \o
    (IF msg.cmd = "log" THEN <<Local("ipcHandler", msg)>>
     ELSE IF msg.cmd = "dispatch" /\ msg.event # NoField THEN <<Local("dispatch", msg)>>
     ELSE <<>>)

\* a live worker receives msg on its IPC channel
WorkerOnMessage(worker, msg) ==
    /\ mpc = "running"
    /\ worker \in 1..nforks
    /\ worker \notin exited
    /\ relay' = [side |-> "worker", who |-> worker, msg |-> msg, ops |-> workerOnMessage(msg)]
    /\ UNCHANGED <<mpc, cfgWorkers, cpus, workers, listeners, nforks, exited, pendingExit,
                   handled>>
    /\ UNCHANGED <<bulkVars, reqVars>>

\* ====================================================== ResponseCoordinator
\* common.returnMessage / blockResponses / unblockResponses live in
\* utils/common.js; they act on the response state of the shared context.
Response == [finished |-> finished, blocked |-> blocked, recorded |-> recorded, socket |-> socket]
Msg(status, body) == [status |-> status, body |-> body]

\* write(context, status, body): a no-op on an answered context, recorded while
\* buffering, the terminal write otherwise
returnMessageUnguarded(rc, status, body) ==
    IF rc.blocked THEN [rc EXCEPT !.recorded = Append(@, Msg(status, body))]
    ELSE [rc EXCEPT !.socket = Append(@, Msg(status, body)), !.finished = TRUE]
returnMessage(rc, status, body) ==
    IF rc.finished THEN rc
    ELSE IF rc.blocked THEN [rc EXCEPT !.recorded = Append(@, Msg(status, body))]
    ELSE [rc EXCEPT !.socket = Append(@, Msg(status, body)), !.finished = TRUE]

blockResponses(rc) == [rc EXCEPT !.blocked = TRUE]

\* leaves buffering mode and flushes at most the most recent recorded write
unblockResponsesFlushAll(rc) ==
    [rc EXCEPT !.blocked = FALSE, !.recorded = <<>>, !.socket = @ \o rc.recorded,
               !.finished = @ \/ rc.recorded # <<>>]
unblockResponses(rc) ==
    LET open == [rc EXCEPT !.blocked = FALSE, !.recorded = <<>>]
    IN IF rc.recorded # <<>>
       THEN returnMessage(open, rc.recorded[Len(rc.recorded)].status,
                                rc.recorded[Len(rc.recorded)].body)
       ELSE open

SetResponse(rc) ==
    /\ finished' = rc.finished
    /\ blocked' = rc.blocked
    /\ recorded' = rc.recorded
    /\ socket' = rc.socket

\* any caller using the coordinator on one context: a write, entering and
\* leaving buffering mode
Statuses == {200, 400, 401}
RcStep(ev, rc) ==
    /\ pc = "rc"
    /\ Len(log) < MaxCalls
    /\ SetResponse(rc)
    /\ log' = Append(log, ev)
    /\ UNCHANGED <<safe, payload, requests, appKey, pc, i, reqBody, tmpParams, promises>>
    /\ UNCHANGED <<supVars, reqVars>>
RcWrite(status) ==
    /\ status \in Statuses
    /\ RcStep([ev |-> "write", i |-> status], returnMessage(Response, status, "body"))
RcBlock ==
    /\ ~blocked
    /\ RcStep([ev |-> "block", i |-> 0], blockResponses(Response))
RcUnblock ==
    /\ blocked
    /\ RcStep([ev |-> "unblock", i |-> 0], unblockResponses(Response))

\* ====================================================== the /i/bulk pipeline
NoValue == ""
AppKeys == {"k1"}
SharedKeys == {"k2"}
DeviceIds == {"d1"}
SubRequest == [app_key : AppKeys \cup {NoValue}, device_id : DeviceIds \cup {NoValue}]
\* params.qstring.requests: undefined, the empty string, a string JSON.parse
\* rejects, a string that parses to a falsy value (null, 0, false), a string
\* holding a JSON array, a string holding a JSON object that is no array
PayloadKinds == {"absent", "empty", "unparsable", "falsy", "array", "object"}

\* requests && typeof requests === "string"
IsTruthyString(p) == p \in {"unparsable", "falsy", "array", "object"}

\* JSON.parse(requests): the value, or "throw" for a SyntaxError
JSONparse(p) ==
    CASE p = "unparsable" -> "throw"
      [] p = "falsy" -> "null"
      [] p = "array" -> "array"
      [] p = "object" -> "object"

\* try { requests = JSON.parse(requests) } catch (SyntaxError) { requests = null }
ParsedRequests(p) ==
    IF IsTruthyString(p)
    THEN (IF JSONparse(p) = "throw" THEN "null" ELSE JSONparse(p))
    ELSE p

\* !requests
Falsy(v) == v \in {"absent", "empty", "null"}
NoId == <<>>
NoParams == [app_key |-> NoValue, device_id |-> NoValue, app_user_id |-> NoId, built |-> FALSE]
OriginalBody == [json |-> <<>>]

Ev(e, k) == [ev |-> e, i |-> k]
\* the log after a call of the coordinator: a terminal write is an event
Logged(l, before, after) ==
    IF Len(after.socket) > Len(before.socket)
    THEN Append(l, Ev("respond", after.socket[Len(after.socket)].status))
    ELSE l

\* JSON.stringify(requests[i])
stringify(r) == [json |-> <<r>>]
\* crypto.createHash('sha1').update(s).digest('hex')
sha1hex(s) == <<"sha1", s>>

\* var requests = params.qstring.requests; JSON.parse; if(!requests) 400
BulkParseNoReturn ==
    /\ pc = "recv"
    /\ LET rc == IF Falsy(ParsedRequests(payload))
                 THEN returnMessage(Response, 400, "Missing parameter \"requests\"")
                 ELSE Response
       IN /\ SetResponse(rc)
          /\ log' = Logged(log, Response, rc)
    /\ pc' = "eager"
    /\ UNCHANGED <<safe, payload, requests, appKey, i, reqBody, tmpParams, promises>>
    /\ UNCHANGED <<supVars, reqVars>>
BulkParse ==
    /\ pc = "recv"
    /\ IF Falsy(ParsedRequests(payload))
       THEN LET rc == returnMessage(Response, 400, "Missing parameter \"requests\"")
            IN /\ SetResponse(rc)
               /\ log' = Logged(log, Response, rc)
               /\ pc' = "rejected"
       ELSE /\ pc' = "eager"
            /\ UNCHANGED <<finished, blocked, recorded, socket, log>>
    /\ UNCHANGED <<safe, payload, requests, appKey, i, reqBody, tmpParams, promises>>
    /\ UNCHANGED <<supVars, reqVars>>

\* if (!plugins.getConfig("api").safe && !params.res.finished) returnMessage(200)
BulkEagerRespondAfterBlock ==
    /\ pc = "eager"
    /\ LET held == blockResponses(Response)
           rc == IF ~safe /\ ~finished
                 THEN returnMessage(held, 200, "Success")
                 ELSE held
       IN /\ SetResponse(rc)
          /\ log' = Logged(Append(log, Ev("block", 0)), Response, rc)
    /\ pc' = "block"
    /\ UNCHANGED <<safe, payload, requests, appKey, i, reqBody, tmpParams, promises>>
    /\ UNCHANGED <<supVars, reqVars>>
BulkEagerRespondAlways ==
    /\ pc = "eager"
    /\ LET rc == returnMessage(Response, 200, "Success")
       IN /\ SetResponse(rc)
          /\ log' = Logged(log, Response, rc)
    /\ pc' = "block"
    /\ UNCHANGED <<safe, payload, requests, appKey, i, reqBody, tmpParams, promises>>
    /\ UNCHANGED <<supVars, reqVars>>
BulkEagerRespond ==
    /\ pc = "eager"
    /\ LET rc == IF ~safe /\ ~finished
                 THEN returnMessage(Response, 200, "Success")
                 ELSE Response
       IN /\ SetResponse(rc)
          /\ log' = Logged(log, Response, rc)
    /\ pc' = "block"
    /\ UNCHANGED <<safe, payload, requests, appKey, i, reqBody, tmpParams, promises>>
    /\ UNCHANGED <<supVars, reqVars>>

\* common.blockResponses(params); ... processBulkRequest(0)
BulkBlockNever ==
    /\ pc = "block"
    /\ pc' = "pbr"
    /\ i' = 0
    /\ UNCHANGED <<safe, payload, requests, appKey, reqBody, tmpParams, promises>>
    /\ UNCHANGED <<finished, blocked, recorded, socket, log>>
    /\ UNCHANGED <<supVars, reqVars>>
BulkBlock ==
    /\ pc = "block"
    /\ SetResponse(blockResponses(Response))
    /\ log' = Append(log, Ev("block", 0))
    /\ pc' = "pbr"
    /\ i' = 0
    /\ UNCHANGED <<safe, payload, requests, appKey, reqBody, tmpParams, promises>>
    /\ UNCHANGED <<supVars, reqVars>>

\* requests[k], k counted from 0 as in the code
Elem(k) == requests[k + 1]

\* requests[i].app_key || appKey
ResolveKey(own, shared) == IF own # NoValue THEN own ELSE shared

\* if (!requests[i].app_key && !appKey)
NoAppKey(r, shared) == r.app_key = NoValue /\ shared = NoValue

\* if (!tmpParams.qstring.device_id)
NoDeviceIdNever(r) == FALSE
NoDeviceId(r) == r.device_id = NoValue

\* createHash('sha1').update(app_key + device_id + "").digest('hex')
AppUserIdDeviceFirst(key, device) == sha1hex(device \o key \o "")
AppUserId(key, device) == sha1hex(key \o device \o "")

\* var tmpParams = {...}; tmpParams["qstring"]['app_key'] = requests[i].app_key || appKey
BuildTmpParamsHashed(r, key) ==
    [app_key |-> key, device_id |-> r.device_id,
     app_user_id |-> AppUserId(key, r.device_id), built |-> TRUE]
BuildTmpParams(r, key) ==
    [app_key |-> key, device_id |-> r.device_id, app_user_id |-> NoId, built |-> TRUE]

\* requests has a length and elements: it is an array
IsArray(v) == v = "array"

\* processBulkRequest(0) on an object that is no array: requests.length is
\* undefined, so i == requests.length is false; requests[i] is undefined and
\* reading requests[i].app_key throws a TypeError that nothing catches: the
\* uncaughtException handler ends the worker with process.exit(1)
BulkTypeError ==
    /\ pc = "pbr"
    /\ ~IsArray(ParsedRequests(payload))
    /\ log' = Append(log, Ev("throw", i))
    /\ pc' = "crashed"
    /\ UNCHANGED <<safe, payload, requests, appKey, i, finished, blocked, recorded,
                   socket, reqBody, tmpParams, promises>>
    /\ UNCHANGED <<supVars, reqVars>>

\* function processBulkRequest(i), up to the call of validateAppForWriteAPI
processBulkRequest ==
    /\ pc = "pbr"
    /\ IsArray(ParsedRequests(payload))
    /\ IF i = Len(requests)
       THEN LET rc1 == unblockResponses(Response)
                rc2 == IF safe /\ ~rc1.finished
                       THEN returnMessage(rc1, 200, "Success")
                       ELSE rc1
            IN /\ SetResponse(rc2)
               /\ log' = Logged(Logged(Append(log, Ev("unblock", i)), Response, rc1), rc1, rc2)
               /\ pc' = "done"
               /\ UNCHANGED <<i, requests, reqBody, tmpParams>>
       ELSE IF NoAppKey(Elem(i), appKey)
       THEN /\ log' = Append(log, Ev("skip", i))
            /\ i' = i + 1
            /\ UNCHANGED <<pc, requests, reqBody, tmpParams, finished, blocked, recorded, socket>>
       ELSE LET key == ResolveKey(Elem(i).app_key, appKey)
                tmp == BuildTmpParams(Elem(i), key)
            IN /\ reqBody' = stringify(Elem(i))
               /\ requests' = [requests EXCEPT ![i + 1].app_key = key]
               /\ UNCHANGED <<finished, blocked, recorded, socket>>
               /\ IF NoDeviceId(Elem(i))
                  THEN /\ tmpParams' = [tmpParams EXCEPT ![i] = tmp]
                       /\ log' = Append(log, Ev("skip", i))
                       /\ i' = i + 1
                       /\ UNCHANGED pc
                  ELSE /\ tmpParams' = [tmpParams EXCEPT ![i] =
                              [tmp EXCEPT !.app_user_id = AppUserId(key, Elem(i).device_id)]]
                       /\ log' = Append(log, Ev("validate", i))
                       /\ pc' = "validating"
                       /\ UNCHANGED i
    /\ UNCHANGED <<safe, payload, appKey, promises>>
    /\ UNCHANGED <<supVars, reqVars>>

\* tmpParams.promises with n promises pushed, 'promises':[] being Registered(0)
Registered(n) == [pending |-> n, resolved |-> 0, rejected |-> 0]

\* Validator.validateAppForWriteAPI(tmpParams, onSuccess), success: the context is
\* populated, the hooks it runs register n promises, the continuation is invoked
\* once and calls Promise.all(tmpParams.promises).then(resolver).catch(...)
ValidateOk(n) ==
    /\ pc = "validating"
    /\ promises' = [promises EXCEPT ![i] = Registered(n)]
    /\ log' = Append(log, Ev("valid", i))
    /\ pc' = "promises"
    /\ UNCHANGED <<safe, payload, requests, appKey, i, finished, blocked, recorded,
                   socket, reqBody, tmpParams>>
    /\ UNCHANGED <<supVars, reqVars>>

\* Validator failure: it writes the error response itself and never invokes the
\* continuation
ValidateFail ==
    /\ pc = "validating"
    /\ LET rc == returnMessage(Response, 400, "App does not exist")
       IN /\ SetResponse(rc)
          /\ log' = Logged(Append(log, Ev("invalid", i)), Response, rc)
    /\ pc' = "stalled"
    /\ UNCHANGED <<safe, payload, requests, appKey, i, reqBody, tmpParams, promises>>
    /\ UNCHANGED <<supVars, reqVars>>

\* one promise of tmpParams.promises of sub-request k settles
PromiseSettle(k, outcome) ==
    /\ k \in DOMAIN promises
    /\ promises[k].pending > 0
    /\ promises' = [promises EXCEPT ![k].pending = @ - 1, ![k][outcome] = @ + 1]
    /\ UNCHANGED <<safe, payload, requests, appKey, pc, i, finished, blocked, recorded,
                   socket, reqBody, tmpParams, log>>
    /\ UNCHANGED <<supVars, reqVars>>

\* Promise.all(list): fulfilled once every promise is fulfilled, rejected as soon
\* as one of them is rejected
AllFulfilled(ps) == ps.pending = 0 /\ ps.rejected = 0
AllRejected(ps) == ps.rejected > 0

\* function resolver(): plugins.dispatch("/sdk/end", {params:tmpParams}, callback)
resolver(l) == Append(l, Ev("sdkend", i))

\* .then(resolver)
AllThen ==
    /\ pc = "promises"
    /\ AllFulfilled(promises[i])
    /\ log' = resolver(log)
    /\ pc' = "sdkend"
    /\ UNCHANGED <<safe, payload, requests, appKey, i, finished, blocked, recorded,
                   socket, reqBody, tmpParams, promises>>
    /\ UNCHANGED <<supVars, reqVars>>

\* .catch(function(error) { console.log(error); resolver(); })
AllCatchAbort ==
    /\ pc = "promises"
    /\ AllRejected(promises[i])
    /\ log' = Append(log, Ev("error", i))
    /\ pc' = "aborted"
    /\ UNCHANGED <<safe, payload, requests, appKey, i, finished, blocked, recorded,
                   socket, reqBody, tmpParams, promises>>
    /\ UNCHANGED <<supVars, reqVars>>
AllCatch ==
    /\ pc = "promises"
    /\ AllRejected(promises[i])
    /\ log' = resolver(Append(log, Ev("error", i)))
    /\ pc' = "sdkend"
    /\ UNCHANGED <<safe, payload, requests, appKey, i, finished, blocked, recorded,
                   socket, reqBody, tmpParams, promises>>
    /\ UNCHANGED <<supVars, reqVars>>

\* .then(resolver) when plugins.dispatch("/sdk/end", ...) throws inside resolver
\* before its callback ran: the promise .then returned is rejected, which the
\* .catch handler of the same chain receives
AllThenThrows ==
    /\ pc = "promises"
    /\ AllFulfilled(promises[i])
    /\ log' = Append(resolver(log), Ev("throw", i))
    /\ pc' = "caught"
    /\ UNCHANGED <<safe, payload, requests, appKey, i, finished, blocked, recorded,
                   socket, reqBody, tmpParams, promises>>
    /\ UNCHANGED <<supVars, reqVars>>

\* .catch(function(error) { console.log(error); resolver(); }) receiving what
\* resolver threw: resolver runs again; when it throws again the rejection is
\* handled by nobody and the batch goes no further
CatchAfterThrow(throwsAgain) ==
    /\ pc = "caught"
    /\ log' = IF throwsAgain
              THEN Append(resolver(Append(log, Ev("error", i))), Ev("throw", i))
              ELSE resolver(Append(log, Ev("error", i)))
    /\ pc' = IF throwsAgain THEN "unhandled" ELSE "sdkend"
    /\ UNCHANGED <<safe, payload, requests, appKey, i, finished, blocked, recorded,
                   socket, reqBody, tmpParams, promises>>
    /\ UNCHANGED <<supVars, reqVars>>

\* .catch(...) on a rejected Promise.all, resolver throwing: nobody handles it
AllCatchThrows ==
    /\ pc = "promises"
    /\ AllRejected(promises[i])
    /\ log' = Append(resolver(Append(log, Ev("error", i))), Ev("throw", i))
    /\ pc' = "unhandled"
    /\ UNCHANGED <<safe, payload, requests, appKey, i, finished, blocked, recorded,
                   socket, reqBody, tmpParams, promises>>
    /\ UNCHANGED <<supVars, reqVars>>

\* the callback given to plugins.dispatch("/sdk/end", ...): processBulkRequest(i + 1)
SdkEndDone ==
    /\ pc = "sdkend"
    /\ log' = Append(log, Ev("sdkdone", i))
    /\ i' = i + 1
    /\ pc' = "pbr"
    /\ UNCHANGED <<safe, payload, requests, appKey, finished, blocked, recorded,
                   socket, reqBody, tmpParams, promises>>
    /\ UNCHANGED <<supVars, reqVars>>

\* ============================================================ the dispatcher
\* A string is the sequence of its characters (tokens); a path is the sequence of
\* its segments, so that "/" + a + "/" + b is <<a, b>> and "" is <<>>.
IdLength == 24
Chars(n) == [k \in 1..n |-> "a"]

\* a qstring field: undefined, or a string
Undefined == [def |-> FALSE, str |-> <<>>]
Str(t) == [def |-> TRUE, str |-> t]
Truthy(v) == v.def /\ Len(v.str) > 0

IdValues == {Undefined, Str(Chars(0)), Str(Chars(IdLength - 1)), Str(Chars(IdLength)),
             Str(Chars(IdLength + 1))}
FieldValues == {Undefined, Str(<<>>), Str(<<"v">>)}
Unparsable == <<"{">>
JsonTexts == {Undefined, Str(<<>>), Str(Unparsable), Str(<<"[", "]">>)}
Methods == {Undefined, Str(<<"sessions">>), Str(<<"cities">>), Str(<<"events">>),
            Str(<<"nosuch">>)}
\* JSON.parse(text) returns (TRUE) or throws SyntaxError (FALSE)
Parsable(text) == text = <<"[", "]">>

ConfigPaths == {<<>>, <<"countly">>}
Urls ==
    {<<"", "">>, <<"", "i">>, <<"", "i", "">>, <<"", "i", "bulk">>,
     <<"", "i", "users", "create">>, <<"", "i", "users", "nosuch">>,
     <<"", "i", "apps", "update">>, <<"", "i", "tasks", "delete">>,
     <<"", "o">>, <<"", "o", "users", "all">>, <<"", "o", "apps", "details">>,
     <<"", "o", "tasks", "all">>, <<"", "o", "system", "version">>,
     <<"", "o", "export", "db">>, <<"", "o", "ping">>, <<"", "o", "token">>,
     <<"", "o", "analytics", "dashboard">>, <<"", "o", "analytics">>,
     <<"", "x", "y", "z">>, <<"", "countly", "i">>, <<"", "countly", "countly", "o">>}

\* if (common.config.path == "/" + paths[1]) paths.splice(1, 1)
StripPrefixTwice(ps, prefix) ==
    LET once == IF Len(ps) >= 2 /\ prefix = <<ps[2]>>
                THEN <<ps[1]>> \o SubSeq(ps, 3, Len(ps)) ELSE ps
    IN IF Len(once) >= 2 /\ prefix = <<once[2]>>
       THEN <<once[1]>> \o SubSeq(once, 3, Len(once)) ELSE once
StripPrefix(ps, prefix) ==
    IF Len(ps) >= 2 /\ prefix = <<ps[2]>>
    THEN <<ps[1]>> \o SubSeq(ps, 3, Len(ps))
    ELSE ps
\* for (i = 1; i < paths.length; i++) { if (i > 2) break; apiPath += "/" + paths[i] }
ApiPathOf(ps) == SubSeq(ps, 2, IF Len(ps) < 3 THEN Len(ps) ELSE 3)
\* paths.join("/")
FullPathOf(ps) == SubSeq(ps, 2, Len(ps))

\* the fields the category of a request reads; the others are left undefined
CategoryFields(ap) ==
    IF ap = <<"i">> THEN {"app_key", "device_id", "events"}
    ELSE IF ap \in {<<"i", "users">>, <<"i", "apps">>} THEN {"args"}
    ELSE IF ap = <<"i", "tasks">> THEN {"task_id"}
    ELSE IF ap \in {<<"o", "system">>, <<"o", "export">>} THEN {"api_key"}
    ELSE IF ap = <<"o">> THEN {"method", "events"}
    ELSE {}
Opt(f, fs, values) == IF f \in fs THEN values ELSE {Undefined}
QueryStrings(fs) ==
    [app_id : IdValues, user_id : IdValues,
     app_key : Opt("app_key", fs, FieldValues), device_id : Opt("device_id", fs, FieldValues),
     task_id : Opt("task_id", fs, FieldValues), api_key : Opt("api_key", fs, FieldValues),
     args : Opt("args", fs, JsonTexts), events : Opt("events", fs, JsonTexts),
     method : Opt("method", fs, Methods)]
NoQuery ==
    [app_id |-> Undefined, user_id |-> Undefined, app_key |-> Undefined,
     device_id |-> Undefined, task_id |-> Undefined, api_key |-> Undefined,
     args |-> Undefined, events |-> Undefined, method |-> Undefined]

NoReason == ""
RootEvent == <<"">>
SdkEnd == <<"sdk", "end">>
\* what the dispatcher invokes
Dispatch(event, claimed) == [call |-> "dispatch", what |-> event, claimed |-> claimed]
Validate(validator) == [call |-> "validator", what |-> <<validator>>, claimed |-> FALSE]
Handler(ap) == [call |-> "handler", what |-> ap, claimed |-> FALSE]
Bulk == [call |-> "bulk", what |-> <<"i", "bulk">>, claimed |-> FALSE]
Ping == [call |-> "db", what |-> <<"o", "ping">>, claimed |-> FALSE]
\* what the Validator answered
Valid == [call |-> "valid", what |-> <<>>, claimed |-> FALSE]
Rejected == [call |-> "invalid", what |-> <<>>, claimed |-> FALSE]

bulkRest == <<safe, payload, requests, appKey, pc, i, reqBody, tmpParams, promises, log>>
\* one step of the dispatcher: its calls in order, and the response state it leaves
Step(to, cs, rc) ==
    /\ rpc' = to
    /\ calls' = calls \o cs
    /\ SetResponse(rc)
    /\ UNCHANGED <<reqMethod, fields, configPath, url, paths, qstring, apiPath, fullPath, cancelRequest>>
    /\ UNCHANGED bulkRest
    /\ UNCHANGED supVars

\* req.method.toLowerCase()
toLowerCase(m) ==
    CASE m = "GET" -> "get"
      [] m = "POST" -> "post"
      [] m = "OPTIONS" -> "options"

\* for (var i in fields) params.qstring[i] = fields[i]
MergeQueryWins(q, f) == [k \in DOMAIN q |-> IF q[k].def THEN q[k] ELSE f[k]]
Merge(q, f) == [k \in DOMAIN q |-> IF f[k].def THEN f[k] ELSE q[k]]

\* the request callback up to the branch on req.method: a POST waits for
\* form.parse, OPTIONS is answered with res.writeHead(200, headers); res.end(),
\* anything else calls processRequest
Receive ==
    /\ rpc = "recv"
    /\ paths' = StripPrefix(paths, configPath)
    /\ IF toLowerCase(reqMethod) = "post"
       THEN /\ rpc' = "parsing"
            /\ UNCHANGED <<finished, socket>>
       ELSE IF reqMethod = "OPTIONS"
       THEN /\ rpc' = "end"
            /\ finished' = TRUE
            /\ socket' = Append(socket, Msg(200, "headers"))
       ELSE /\ rpc' = "process"
            /\ UNCHANGED <<finished, socket>>
    /\ UNCHANGED <<reqMethod, fields, configPath, url, qstring, parsed, apiPath, fullPath,
                   cancelRequest, calls, app_user_id>>
    /\ UNCHANGED <<safe, payload, requests, appKey, pc, i, blocked, recorded, reqBody,
                   tmpParams, promises, log>>
    /\ UNCHANGED supVars

\* the callback of form.parse: the body fields are copied over params.qstring,
\* then if (!params.apiPath) processRequest()
FormParsed ==
    /\ rpc = "parsing"
    /\ qstring' = Merge(qstring, fields)
    /\ rpc' = IF apiPath = <<>> THEN "process" ELSE "end"
    /\ UNCHANGED <<reqMethod, fields, configPath, url, paths, parsed, apiPath, fullPath,
                   cancelRequest, calls, app_user_id>>
    /\ UNCHANGED <<supVars, bulkVars>>

\* if (qstring.f && qstring.f.length != 24)
BadIdNever(f) == FALSE
BadId(f) == Truthy(qstring[f]) /\ Len(qstring[f].str) # IdLength

\* processRequest up to params.fullPath
CheckIds ==
    /\ rpc = "process"
    /\ IF BadId("app_id")
       THEN Step("end", <<>>, returnMessage(Response, 400, "Invalid parameter \"app_id\""))
       ELSE IF BadId("user_id")
       THEN Step("end", <<>>, returnMessage(Response, 400, "Invalid parameter \"user_id\""))
       ELSE /\ rpc' = "root"
            /\ apiPath' = ApiPathOf(paths)
            /\ fullPath' = FullPathOf(paths)
            /\ UNCHANGED <<reqMethod, fields, configPath, url, paths, qstring, cancelRequest, calls>>
            /\ UNCHANGED <<supVars, bulkVars>>
    /\ UNCHANGED <<parsed, app_user_id>>

\* plugins.dispatch("/", ...): a plugin may set params.cancelRequest to a reason
DispatchRoot(reason) ==
    /\ rpc = "root"
    /\ rpc' = "switch"
    /\ cancelRequest' = reason
    /\ calls' = Append(calls, Dispatch(RootEvent, FALSE))
    /\ UNCHANGED <<reqMethod, fields, configPath, url, paths, qstring, parsed, apiPath, fullPath, app_user_id>>
    /\ UNCHANGED <<supVars, bulkVars>>

\* the else branch of if (!params.cancelRequest)
CancelledRoutes ==
    /\ rpc = "switch"
    /\ cancelRequest # NoReason
    /\ Step("end", <<Handler(apiPath)>>,
            IF safe /\ ~finished
            THEN returnMessage(Response, 200, "Request ignored: reason") ELSE Response)
    /\ UNCHANGED <<parsed, app_user_id>>
Cancelled ==
    /\ rpc = "switch"
    /\ cancelRequest # NoReason
    /\ Step("end", <<>>,
            IF safe /\ ~finished
            THEN returnMessage(Response, 200, "Request ignored: reason") ELSE Response)
    /\ UNCHANGED <<parsed, app_user_id>>

\* the request is routed: switch (apiPath) entered at the case ap
Routed(ap) == rpc = "switch" /\ cancelRequest = NoReason /\ apiPath = ap
Categories ==
    {<<"i", "bulk">>, <<"i", "users">>, <<"i", "apps">>, <<"i", "tasks">>, <<"i">>,
     <<"o", "users">>, <<"o", "apps">>, <<"o", "tasks">>, <<"o", "system">>,
     <<"o", "export">>, <<"o", "ping">>, <<"o", "token">>, <<"o">>, <<"o", "analytics">>}

\* try { qstring.f = JSON.parse(qstring.f) } catch (SyntaxError) { console.log(...) }
ParseField(f) == IF Parsable(qstring[f].str) THEN parsed \cup {f} ELSE parsed

\* switch (paths[3]) { case <known>: <validator>(...); default: hook, else 400 }
SubSwitch(known, invalid, claimed) ==
    IF Len(paths) >= 4 /\ paths[4] \in DOMAIN known
    THEN Step("validating", <<Validate(known[paths[4]])>>, Response)
    ELSE Step("end", <<Dispatch(apiPath, claimed)>>,
              IF claimed THEN Response ELSE returnMessage(Response, 400, invalid))

\* case '/i/bulk': the pipeline of the /i/bulk section takes the request over
RouteBulk ==
    /\ Routed(<<"i", "bulk">>)
    /\ Step("bulk", <<Bulk>>, Response)
    /\ UNCHANGED <<parsed, app_user_id>>

RouteIUsers(claimed) ==
    /\ Routed(<<"i", "users">>)
    /\ parsed' = IF Truthy(qstring.args) THEN ParseField("args") ELSE parsed
    /\ UNCHANGED app_user_id
    /\ SubSwitch([create |-> "validateUserForWriteAPI", update |-> "validateUserForWriteAPI",
                  delete |-> "validateUserForWriteAPI"],
                 "Invalid path, must be one of /create, /update or /delete", claimed)

RouteIApps(claimed) ==
    /\ Routed(<<"i", "apps">>)
    /\ parsed' = IF Truthy(qstring.args) THEN ParseField("args") ELSE parsed
    /\ UNCHANGED app_user_id
    /\ SubSwitch([create |-> "validateUserForWriteAPI", update |-> "validateUserForWriteAPI",
                  delete |-> "validateUserForWriteAPI", reset |-> "validateUserForWriteAPI"],
                 "Invalid path, must be one of /create, /update, /delete or /reset", claimed)

RouteITasksNoCheck(claimed) ==
    /\ Routed(<<"i", "tasks">>)
    /\ SubSwitch([update |-> "validateUserForWriteAPI", delete |-> "validateUserForWriteAPI",
                  name |-> "validateUserForWriteAPI"], "Invalid path", claimed)
    /\ UNCHANGED <<parsed, app_user_id>>
RouteITasks(claimed) ==
    /\ Routed(<<"i", "tasks">>)
    /\ IF ~Truthy(qstring.task_id)
       THEN Step("end", <<>>, returnMessage(Response, 400, "Missing parameter \"task_id\""))
       ELSE SubSwitch([update |-> "validateUserForWriteAPI",
                       delete |-> "validateUserForWriteAPI",
                       name |-> "validateUserForWriteAPI"], "Invalid path", claimed)
    /\ UNCHANGED <<parsed, app_user_id>>

\* params.qstring.device_id += ""; params.app_user_id = sha1(app_key + device_id + "")
\* (the fields of a query string are strings, which + "" leaves as they are)
IngestAppUserId(app_key, device_id) == sha1hex(app_key \o device_id)
RouteIResolvesAtOnce ==
    /\ Routed(<<"i">>)
    /\ IF ~Truthy(qstring.app_key) \/ ~Truthy(qstring.device_id)
       THEN /\ Step("end", <<>>,
                    returnMessage(Response, 400, "Missing parameter \"app_key\" or \"device_id\""))
            /\ UNCHANGED <<parsed, app_user_id>>
       ELSE /\ parsed' = IF Truthy(qstring.events) THEN ParseField("events") ELSE parsed
            /\ app_user_id' = IngestAppUserId(qstring.app_key.str, qstring.device_id.str)
            /\ Step("validating", <<Validate("validateAppForWriteAPI"), Dispatch(SdkEnd, FALSE)>>,
                    IF ~safe /\ ~finished
                    THEN returnMessage(Response, 200, "Success") ELSE Response)
RouteI ==
    /\ Routed(<<"i">>)
    /\ IF ~Truthy(qstring.app_key) \/ ~Truthy(qstring.device_id)
       THEN /\ Step("end", <<>>,
                    returnMessage(Response, 400, "Missing parameter \"app_key\" or \"device_id\""))
            /\ UNCHANGED <<parsed, app_user_id>>
       ELSE /\ parsed' = IF Truthy(qstring.events) THEN ParseField("events") ELSE parsed
            /\ app_user_id' = IngestAppUserId(qstring.app_key.str, qstring.device_id.str)
            /\ Step("validating", <<Validate("validateAppForWriteAPI")>>,
                    IF ~safe /\ ~finished
                    THEN returnMessage(Response, 200, "Success") ELSE Response)

RouteOUsers(claimed) ==
    /\ Routed(<<"o", "users">>)
    /\ SubSwitch([all |-> "validateUserForMgmtReadAPI", me |-> "validateUserForMgmtReadAPI",
                  id |-> "validateUserForMgmtReadAPI"],
                 "Invalid path, must be one of /all or /me", claimed)
    /\ UNCHANGED <<parsed, app_user_id>>

RouteOApps(claimed) ==
    /\ Routed(<<"o", "apps">>)
    /\ SubSwitch([all |-> "validateUserForMgmtReadAPI", mine |-> "validateUserForMgmtReadAPI",
                  details |-> "validateUserForDataReadAPI"],
                 "Invalid path, must be one of /all , /mine or /details", claimed)
    /\ UNCHANGED <<parsed, app_user_id>>

RouteOTasks(claimed) ==
    /\ Routed(<<"o", "tasks">>)
    /\ SubSwitch([all |-> "validateUserForMgmtReadAPI", task |-> "validateUserForMgmtReadAPI",
                  check |-> "validateUserForMgmtReadAPI"], "Invalid path", claimed)
    /\ UNCHANGED <<parsed, app_user_id>>

RouteOSystem(claimed) ==
    /\ Routed(<<"o", "system">>)
    /\ IF ~Truthy(qstring.api_key)
       THEN Step("end", <<>>, returnMessage(Response, 400, "Missing parameter \"api_key\""))
       ELSE SubSwitch([version |-> "validateUserForMgmtReadAPI",
                       plugins |-> "validateUserForMgmtReadAPI"], "Invalid path", claimed)
    /\ UNCHANGED <<parsed, app_user_id>>

RouteOExport(claimed) ==
    /\ Routed(<<"o", "export">>)
    /\ IF ~Truthy(qstring.api_key)
       THEN Step("end", <<>>, returnMessage(Response, 400, "Missing parameter \"api_key\""))
       ELSE SubSwitch([db |-> "validateUserForMgmtReadAPI",
                       request |-> "validateUserForMgmtReadAPI",
                       data |-> "validateUserForMgmtReadAPI"], "Invalid path", claimed)
    /\ UNCHANGED <<parsed, app_user_id>>

\* case '/o/ping': common.db.collection("plugins").findOne is started
RouteOPing ==
    /\ Routed(<<"o", "ping">>)
    /\ Step("ping", <<Ping>>, Response)
    /\ UNCHANGED <<parsed, app_user_id>>
\* its callback
PingResult(err) ==
    /\ rpc = "ping"
    /\ Step("end", <<>>, IF err THEN returnMessage(Response, 404, "DB Error")
                         ELSE returnMessage(Response, 200, "Success"))
    /\ UNCHANGED <<parsed, app_user_id>>

RouteOTokenUnchecked ==
    /\ Routed(<<"o", "token">>)
    /\ Step("end", <<Handler(apiPath)>>, returnMessage(Response, 200, "output"))
    /\ UNCHANGED <<parsed, app_user_id>>
RouteOToken ==
    /\ Routed(<<"o", "token">>)
    /\ Step("validating", <<Validate("validateUserForDataReadAPI")>>, Response)
    /\ UNCHANGED <<parsed, app_user_id>>

\* switch (params.qstring.method) of case '/o'
DataMethods ==
    {<<"total_users">>, <<"get_period_obj">>, <<"locations">>, <<"sessions">>, <<"users">>,
     <<"app_versions">>, <<"device_details">>, <<"devices">>, <<"carriers">>,
     <<"get_events">>, <<"all_apps">>}
RouteO(claimed, city_data) ==
    /\ Routed(<<"o">>)
    /\ IF ~Truthy(qstring.app_id)
       THEN /\ Step("end", <<>>, returnMessage(Response, 400, "Missing parameter \"app_id\""))
            /\ UNCHANGED <<parsed, app_user_id>>
       ELSE IF qstring.method.def /\ qstring.method.str \in DataMethods
       THEN /\ Step("validating", <<Validate("validateUserForDataReadAPI")>>, Response)
            /\ UNCHANGED <<parsed, app_user_id>>
       ELSE IF qstring.method = Str(<<"cities">>)
       THEN /\ IF city_data
               THEN Step("validating", <<Validate("validateUserForDataReadAPI")>>, Response)
               ELSE Step("end", <<>>, returnMessage(Response, 200, "{}"))
            /\ UNCHANGED <<parsed, app_user_id>>
       ELSE IF qstring.method = Str(<<"events">>)
       THEN /\ parsed' = IF Truthy(qstring.events) THEN ParseField("events") ELSE parsed
            /\ UNCHANGED app_user_id
            /\ Step("validating", <<Validate("validateUserForDataReadAPI")>>, Response)
       ELSE /\ Step("end", <<Dispatch(apiPath, claimed)>>,
                    IF claimed THEN Response
                    ELSE returnMessage(Response, 400, "Invalid method"))
            /\ UNCHANGED <<parsed, app_user_id>>

RouteOAnalytics(claimed) ==
    /\ Routed(<<"o", "analytics">>)
    /\ IF ~Truthy(qstring.app_id)
       THEN Step("end", <<>>, returnMessage(Response, 400, "Missing parameter \"app_id\""))
       ELSE SubSwitch([dashboard |-> "validateUserForDataReadAPI",
                       countries |-> "validateUserForDataReadAPI",
                       sessions |-> "validateUserForDataReadAPI",
                       metric |-> "validateUserForDataReadAPI",
                       tops |-> "validateUserForDataReadAPI",
                       loyalty |-> "validateUserForDataReadAPI",
                       frequency |-> "validateUserForDataReadAPI",
                       durations |-> "validateUserForDataReadAPI",
                       events |-> "validateUserForDataReadAPI"],
                      "Invalid path, must be one of /dashboard or /countries", claimed)
    /\ UNCHANGED <<parsed, app_user_id>>

\* default: of switch (apiPath)
DefaultCallsFullFirst(claimedApi, claimedFull) ==
    IF claimedFull THEN <<Dispatch(fullPath, TRUE)>>
    ELSE <<Dispatch(fullPath, FALSE), Dispatch(apiPath, claimedApi)>>
DefaultCalls(claimedApi, claimedFull) ==
    IF claimedApi THEN <<Dispatch(apiPath, TRUE)>>
    ELSE <<Dispatch(apiPath, FALSE), Dispatch(fullPath, claimedFull)>>
RouteDefault(claimedApi, claimedFull) ==
    /\ rpc = "switch" /\ cancelRequest = NoReason /\ apiPath \notin Categories
    /\ Step("end", DefaultCalls(claimedApi, claimedFull),
            IF claimedApi \/ claimedFull THEN Response
            ELSE returnMessage(Response, 400, "Invalid path"))
    /\ UNCHANGED <<parsed, app_user_id>>

\* ---- the Validator's outcome and the continuation the dispatcher passed
\* success: the continuation runs; a handler produces the output, /i waits for
\* Promise.all(params.promises)
\* (the hooks the Validator runs push n promises on params.promises)
ReqValidateOk(n) ==
    /\ rpc = "validating"
    /\ IF apiPath = <<"i">>
       THEN /\ rpc' = "promises"
            /\ calls' = Append(calls, Valid)
            /\ promises' = (0 :> Registered(n))
            /\ UNCHANGED <<reqMethod, fields, configPath, url, paths, qstring, apiPath, fullPath, cancelRequest>>
            /\ UNCHANGED <<safe, payload, requests, appKey, pc, i, finished, blocked, recorded,
                           socket, reqBody, tmpParams, log>>
            /\ UNCHANGED supVars
       ELSE Step("end", <<Valid, Handler(apiPath)>>, returnMessage(Response, 200, "output"))
    /\ UNCHANGED <<parsed, app_user_id>>
\* failure: the Validator writes the error itself, the continuation never runs
ReqValidateFail ==
    /\ rpc = "validating"
    /\ Step("end", <<Rejected>>, returnMessage(Response, 401, "User does not exist"))
    /\ UNCHANGED <<parsed, app_user_id>>
\* Promise.all(params.promises).then(resolver).catch(... resolver()) of case '/i'
ReqResolver ==
    /\ rpc = "promises"
    /\ AllFulfilled(promises[0]) \/ AllRejected(promises[0])
    /\ Step("end", <<Dispatch(SdkEnd, FALSE)>>, Response)
    /\ UNCHANGED <<parsed, app_user_id>>

\* ------------------------------------------------ the derivation of app_user_id
\* app keys and device ids, as strings; NoValue is the missing or empty one
IdKeys == {"a", "ab"}
IdDevices == {"bc", "c"}
IdSubRequest == [app_key : IdKeys \cup {NoValue}, device_id : IdDevices \cup {NoValue}]
IdQueryStrings ==
    {[NoQuery EXCEPT !.app_key = k, !.device_id = d] :
        k \in {Undefined} \cup {Str(t) : t \in IdKeys \cup {NoValue}},
        d \in {Undefined} \cup {Str(t) : t \in IdDevices \cup {NoValue}}}

\* the tmpParams processBulkRequest builds for the sub-request r, NoParams when
\* it is skipped for its missing app key
BulkParams(r, shared) ==
    IF NoAppKey(r, shared) THEN NoParams
    ELSE LET key == ResolveKey(r.app_key, shared)
             tmp == BuildTmpParams(r, key)
         IN IF NoDeviceId(r) THEN tmp
            ELSE [tmp EXCEPT !.app_user_id = AppUserId(key, r.device_id)]

\* the bulk path derives the id of the sub-request
IdBulk ==
    /\ pc = "id"
    /\ pc' = "derived"
    /\ tmpParams' = [tmpParams EXCEPT ![0] = BulkParams(Elem(0), appKey)]
    /\ UNCHANGED <<safe, payload, requests, appKey, i, finished, blocked, recorded, socket,
                   reqBody, promises, log>>
    /\ UNCHANGED <<supVars, reqVars>>

\* the single-ingest path derives the id of the request
IdIngest ==
    /\ rpc = "id"
    /\ rpc' = "derived"
    /\ app_user_id' = IF ~Truthy(qstring.app_key) \/ ~Truthy(qstring.device_id)
                      THEN app_user_id
                      ELSE IngestAppUserId(qstring.app_key.str, qstring.device_id.str)
    /\ UNCHANGED <<reqMethod, fields, configPath, url, paths, qstring, parsed, apiPath, fullPath, cancelRequest,
                   calls>>
    /\ UNCHANGED <<supVars, bulkVars>>

\* ========================================================= specifications
\* the master before its startup block has run; no request is in progress
SupInit ==
    /\ mpc = "boot"
    /\ cfgWorkers \in 0..MaxWorkers
    /\ cpus \in 1..MaxWorkers
    /\ workers = <<>>
    /\ listeners = <<>>
    /\ nforks = 0
    /\ exited = {}
    /\ pendingExit = {}
    /\ handled = {}
    /\ relay = NoRelay
    /\ safe = FALSE /\ payload = "absent" /\ requests = <<>> /\ appKey = NoValue
    /\ pc = "idle" /\ i = 0 /\ finished = FALSE /\ blocked = FALSE /\ recorded = <<>>
    /\ socket = <<>> /\ reqBody = OriginalBody /\ tmpParams = <<>> /\ promises = <<>>
    /\ log = <<>>
    /\ reqMethod = "GET" /\ fields = NoQuery
    /\ configPath = <<>> /\ url = <<"">> /\ paths = <<"">> /\ qstring = NoQuery /\ parsed = {}
    /\ app_user_id = NoId
    /\ apiPath = <<>> /\ fullPath = <<>> /\ cancelRequest = NoReason /\ rpc = "idle"
    /\ calls = <<>>

\* a worker that has received one /i/bulk request; the master is left out
BulkInit ==
    /\ safe \in BOOLEAN
    /\ payload \in PayloadKinds
    /\ requests \in IF payload = "array"
                    THEN UNION {[1..n -> SubRequest] : n \in 0..MaxBatch}
                    ELSE {<<>>}
    /\ appKey \in SharedKeys \cup {NoValue}
    /\ pc = "recv"
    /\ i = 0
    /\ finished = FALSE
    /\ blocked = FALSE
    /\ recorded = <<>>
    /\ socket = <<>>
    /\ reqBody = OriginalBody
    /\ tmpParams = [k \in 0..(Len(requests) - 1) |-> NoParams]
    /\ promises = [k \in 0..(Len(requests) - 1) |-> Registered(0)]
    /\ log = <<>>
    /\ mpc = "boot" /\ cfgWorkers = 0 /\ cpus = 1 /\ workers = <<>> /\ listeners = <<>>
    /\ nforks = 0 /\ exited = {} /\ pendingExit = {} /\ handled = {} /\ relay = NoRelay
    /\ reqMethod = "GET" /\ fields = NoQuery
    /\ configPath = <<>> /\ url = <<"">> /\ paths = <<"">> /\ qstring = NoQuery /\ parsed = {}
    /\ app_user_id = NoId
    /\ apiPath = <<>> /\ fullPath = <<>> /\ cancelRequest = NoReason /\ rpc = "idle"
    /\ calls = <<>>

\* a worker that has received one request, split its path and built params; the
\* master and the bulk pipeline are left out
ReqInit ==
    /\ reqMethod = "GET"
    /\ fields = NoQuery
    /\ configPath \in ConfigPaths
    /\ url \in Urls
    /\ paths = url
    /\ qstring \in QueryStrings(CategoryFields(ApiPathOf(StripPrefix(url, configPath))))
    /\ parsed = {}
    /\ app_user_id = NoId
    /\ apiPath = <<>>
    /\ fullPath = <<>>
    /\ cancelRequest = NoReason
    /\ rpc = "recv"
    /\ calls = <<>>
    /\ safe \in BOOLEAN
    /\ finished = FALSE /\ blocked = FALSE /\ recorded = <<>> /\ socket = <<>>
    /\ payload = "absent" /\ requests = <<>> /\ appKey = NoValue /\ pc = "idle" /\ i = 0
    /\ reqBody = OriginalBody /\ tmpParams = <<>> /\ promises = <<>> /\ log = <<>>
    /\ mpc = "boot" /\ cfgWorkers = 0 /\ cpus = 1 /\ workers = <<>> /\ listeners = <<>>
    /\ nforks = 0 /\ exited = {} /\ pendingExit = {} /\ handled = {} /\ relay = NoRelay

SupNext ==
    \/ MasterStart
    \/ \E w \in 1..(MaxWorkers + MaxExits) : WorkerExit(w)
    \/ \E w \in 1..(MaxWorkers + MaxExits) : OnExit(w)
    \/ \E w \in 1..(MaxWorkers + MaxExits), msg \in ControlMessages : MasterOnMessage(w, msg)
    \/ \E w \in 1..(MaxWorkers + MaxExits), msg \in ControlMessages : WorkerOnMessage(w, msg)

\* the steps of the master that start, lose and replace workers
RespawnNext ==
    \/ MasterStart
    \/ \E w \in 1..(MaxWorkers + MaxExits) : WorkerExit(w)
    \/ \E w \in 1..(MaxWorkers + MaxExits) : OnExit(w)

BulkNext ==
    \/ BulkParse
    \/ BulkEagerRespond
    \/ BulkBlock
    \/ processBulkRequest
    \/ BulkTypeError
    \/ \E n \in 0..MaxPromises : ValidateOk(n)
    \/ ValidateFail
    \/ \E k \in 0..(MaxBatch - 1), o \in {"resolved", "rejected"} : PromiseSettle(k, o)
    \/ AllThen
    \/ AllCatch
    \/ SdkEndDone

ReqNext ==
    \/ Receive
    \/ CheckIds
    \/ \E reason \in {NoReason, "reason"} : DispatchRoot(reason)
    \/ Cancelled
    \/ RouteBulk
    \/ \E claimed \in BOOLEAN : RouteIUsers(claimed)
    \/ \E claimed \in BOOLEAN : RouteIApps(claimed)
    \/ \E claimed \in BOOLEAN : RouteITasks(claimed)
    \/ RouteI
    \/ \E claimed \in BOOLEAN : RouteOUsers(claimed)
    \/ \E claimed \in BOOLEAN : RouteOApps(claimed)
    \/ \E claimed \in BOOLEAN : RouteOTasks(claimed)
    \/ \E claimed \in BOOLEAN : RouteOSystem(claimed)
    \/ \E claimed \in BOOLEAN : RouteOExport(claimed)
    \/ RouteOPing
    \/ \E err \in BOOLEAN : PingResult(err)
    \/ RouteOToken
    \/ \E claimed \in BOOLEAN, city_data \in BOOLEAN : RouteO(claimed, city_data)
    \/ \E claimed \in BOOLEAN : RouteOAnalytics(claimed)
    \/ \E claimedApi \in BOOLEAN, claimedFull \in BOOLEAN : RouteDefault(claimedApi, claimedFull)
    \/ \E n \in 0..MaxPromises : ReqValidateOk(n)
    \/ \E o \in {"resolved", "rejected"} : PromiseSettle(0, o)
    \/ ReqValidateFail
    \/ ReqResolver

\* one /i/bulk request whose /sdk/end dispatch may throw
ThrowNext ==
    \/ BulkNext
    \/ AllThenThrows
    \/ \E throwsAgain \in BOOLEAN : CatchAfterThrow(throwsAgain)
    \/ AllCatchThrows

\* a request for /i with any method, a query string and, for a POST, a body
HttpMethods == {"GET", "POST", "OPTIONS"}
BodyFields ==
    {[NoQuery EXCEPT !.app_id = a, !.app_key = k, !.device_id = d] :
        a \in {Undefined, Str(Chars(1))},
        k \in {Undefined, Str(<<>>), Str(<<"w">>)},
        d \in {Undefined, Str(<<"w">>)}}
HttpInit ==
    \/ ReqInit
    \/ /\ reqMethod \in HttpMethods
       /\ fields \in IF reqMethod = "POST" THEN BodyFields ELSE {NoQuery}
       /\ configPath = <<>> /\ url = <<"", "i">> /\ paths = url
       /\ qstring \in {[NoQuery EXCEPT !.app_key = k, !.device_id = d] :
                           k \in FieldValues, d \in {Undefined, Str(<<"v">>)}}
       /\ parsed = {} /\ app_user_id = NoId /\ apiPath = <<>> /\ fullPath = <<>>
       /\ cancelRequest = NoReason /\ rpc = "recv" /\ calls = <<>>
       /\ safe \in BOOLEAN
       /\ finished = FALSE /\ blocked = FALSE /\ recorded = <<>> /\ socket = <<>>
       /\ payload = "absent" /\ requests = <<>> /\ appKey = NoValue /\ pc = "idle" /\ i = 0
       /\ reqBody = OriginalBody /\ tmpParams = <<>> /\ promises = <<>> /\ log = <<>>
       /\ mpc = "boot" /\ cfgWorkers = 0 /\ cpus = 1 /\ workers = <<>> /\ listeners = <<>>
       /\ nforks = 0 /\ exited = {} /\ pendingExit = {} /\ handled = {} /\ relay = NoRelay
HttpNext ==
    \/ ReqNext
    \/ FormParsed

\* a worker that has received one request, of either kind
WorkerInit == ReqInit \/ BulkInit
WorkerNext == ReqNext \/ BulkNext

\* one response context, used by a request of either kind or by any caller
RcInit ==
    \/ ReqInit
    \/ BulkInit
    \/ /\ pc = "rc"
       /\ finished = FALSE /\ blocked = FALSE /\ recorded = <<>> /\ socket = <<>> /\ log = <<>>
       /\ safe = FALSE /\ payload = "absent" /\ requests = <<>> /\ appKey = NoValue /\ i = 0
       /\ reqBody = OriginalBody /\ tmpParams = <<>> /\ promises = <<>>
       /\ mpc = "boot" /\ cfgWorkers = 0 /\ cpus = 1 /\ workers = <<>> /\ listeners = <<>>
       /\ nforks = 0 /\ exited = {} /\ pendingExit = {} /\ handled = {} /\ relay = NoRelay
       /\ reqMethod = "GET" /\ fields = NoQuery
       /\ configPath = <<>> /\ url = <<"">> /\ paths = <<"">> /\ qstring = NoQuery
       /\ parsed = {} /\ apiPath = <<>> /\ fullPath = <<>> /\ cancelRequest = NoReason
       /\ app_user_id = NoId
       /\ rpc = "idle" /\ calls = <<>>
RcNext ==
    \/ WorkerNext
    \/ \E status \in Statuses : RcWrite(status)
    \/ RcBlock
    \/ RcUnblock

\* one bulk sub-request (with the shared key) and one single-ingest request whose
\* ids are derived; or a request of either kind going through its pipeline
IdInit ==
    \/ ReqInit
    \/ BulkInit
    \/ /\ pc = "id" /\ rpc = "id"
       /\ requests \in [1..1 -> IdSubRequest]
       /\ appKey \in IdKeys \cup {NoValue}
       /\ qstring \in IdQueryStrings
       /\ tmpParams = [k \in 0..0 |-> NoParams]
       /\ app_user_id = NoId
       /\ finished = FALSE /\ blocked = FALSE /\ recorded = <<>> /\ socket = <<>> /\ log = <<>>
       /\ safe = FALSE /\ payload = "array" /\ i = 0
       /\ reqBody = OriginalBody /\ promises = <<>>
       /\ mpc = "boot" /\ cfgWorkers = 0 /\ cpus = 1 /\ workers = <<>> /\ listeners = <<>>
       /\ nforks = 0 /\ exited = {} /\ pendingExit = {} /\ handled = {} /\ relay = NoRelay
       /\ reqMethod = "GET" /\ fields = NoQuery
       /\ configPath = <<>> /\ url = <<"", "i">> /\ paths = <<"", "i">>
       /\ parsed = {} /\ apiPath = <<"i">> /\ fullPath = <<"i">> /\ cancelRequest = NoReason
       /\ calls = <<>>
IdNext ==
    \/ WorkerNext
    \/ IdBulk
    \/ IdIngest

SpecSup == SupInit /\ [][SupNext]_vars
\* the master, its workers terminating and being replaced; the master's event
\* loop handles every 'exit' event cluster has emitted
FairRespawn ==
    /\ SupInit
    /\ [][RespawnNext]_vars
    /\ WF_vars(\E w \in 1..(MaxWorkers + MaxExits) : OnExit(w))
SpecId == IdInit /\ [][IdNext]_vars
SpecRc == RcInit /\ [][RcNext]_vars
SpecWorker == WorkerInit /\ [][WorkerNext]_vars
SpecReq == ReqInit /\ [][ReqNext]_vars
SpecHttp == HttpInit /\ [][HttpNext]_vars
SpecBulk == BulkInit /\ [][BulkNext]_vars
SpecThrow == BulkInit /\ [][ThrowNext]_vars

\* the event loop of the worker runs every callback that is ready: the steps of
\* the pipeline itself are weakly fair; the Validator's answer and the
\* settlement of a promise are not
FairBulk ==
    /\ SpecBulk
    /\ WF_vars(BulkParse) /\ WF_vars(BulkEagerRespond) /\ WF_vars(BulkBlock)
    /\ WF_vars(processBulkRequest) /\ WF_vars(BulkTypeError) /\ WF_vars(AllThen) /\ WF_vars(AllCatch)
    /\ WF_vars(SdkEndDone)

\* ================================================================= claims
\* positions of an event in the log
Pos(e) == {n \in DOMAIN log : log[n] = e}
Has(e) == Pos(e) # {}
Success == Msg(200, "Success")
MissingRequests == Msg(400, "Missing parameter \"requests\"")
\* the `requests` payload parsed to an array
Parses == payload = "array"
\* the configured worker count when one is configured, the CPU cores otherwise
desiredCount == IF cfgWorkers > 0 THEN cfgWorkers ELSE cpus
\* the batch has come to rest: every index passed, or the pipeline waits for a
\* continuation the Validator never invokes
AtRest == pc \in {"done", "stalled"}

\* C1: for every /i/bulk request whose payload parses, in eager and in safe mode,
\* whatever the sub-requests' outcomes (skipped, validated, validation failed,
\* promises rejected), never more than one terminal response reaches the socket,
\* and once the batch has come to rest exactly one has.
C1_ExactlyOneResponse ==
    Parses => /\ Len(socket) <= 1
              /\ AtRest => Len(socket) = 1

\* C2: once the master runs, after it has handled k exit events it has forked k
\* replacements (desiredCount + k forks in all), the workers array has
\* desiredCount distinct members, and none of them is a worker whose exit was
\* handled.
C2_PoolRestored ==
    mpc = "running" =>
        /\ nforks = desiredCount + Cardinality(handled)
        /\ Len(workers) = desiredCount
        /\ Cardinality(Range(workers)) = Len(workers)
        /\ Range(workers) \cap handled = {}
        /\ Range(workers) \subseteq 1..nforks
C2_Witness ==
    /\ mpc = "running"
    /\ pendingExit = {}
    /\ Cardinality(handled) >= 2
    /\ \E w \in handled : w > desiredCount

\* C3: when the startup block has run and no exit has been handled yet, exactly
\* desiredCount workers have been forked (the configured count, else the CPU
\* cores), all of them are in the workers array and each has one relay listener.
C3_StartupForksDesired ==
    (mpc = "running" /\ handled = {}) =>
        /\ nforks = desiredCount
        /\ workers = [k \in 1..desiredCount |-> k]
        /\ DOMAIN listeners = 1..desiredCount
        /\ \A w \in 1..desiredCount : listeners[w] = 1
C3_Witness ==
    /\ mpc = "running"
    /\ handled = {}
    /\ pendingExit # {}
    /\ cfgWorkers = 0
    /\ cpus = 2

\* C4: processBulkRequest(k+1) is never running while a promise registered for
\* sub-request k is still pending or before the /sdk/end dispatch of a validated
\* k has called back, and sub-requests are started in strictly increasing index
\* order.
C4_SettledBeforeAdvance ==
    /\ \A k \in DOMAIN promises :
          k < i => /\ promises[k].pending = 0
                   /\ Has(Ev("valid", k)) => Has(Ev("sdkdone", k))
    /\ \A m, n \in DOMAIN log :
          (m < n /\ log[m].ev \in {"skip", "validate"} /\ log[n].ev \in {"skip", "validate"})
             => log[m].i < log[n].i

\* what holds of the indices passed, and of a completed batch
C5_DoneState ==
    /\ pc \in {"pbr", "done"} =>
          \A k \in DOMAIN promises :
              k < i => /\ Has(Ev("skip", k)) \/ Has(Ev("sdkdone", k))
                       /\ Has(Ev("valid", k)) => Cardinality(Pos(Ev("sdkend", k))) = 1
    /\ pc = "done" => i = Len(requests) /\ socket = <<Success>>
\* the step the pipeline takes when Promise.all of the running sub-request is rejected
C5_CatchStep ==
    (pc = "promises" /\ AllRejected(promises[i]) /\ log' # log) =>
        /\ log'[Len(log')] = Ev("sdkend", i)
        /\ pc' = "sdkend"
        /\ UNCHANGED <<socket, finished, recorded, blocked>>
\* C5: a rejected promise of sub-request k counts as settlement: the step that
\* handles the rejection dispatches /sdk/end for k and touches no response
\* state, the pipeline then advances to the next call of processBulkRequest,
\* every index passed was skipped or had its one /sdk/end dispatch call back,
\* and a completed batch has passed every index and answered the one 200
\* Success, whatever was rejected.
C5_RejectionIsSettlement ==
    /\ []C5_DoneState
    /\ [][C5_CatchStep]_vars
    /\ (pc = "promises" /\ AllRejected(promises[i])) ~> (pc = "pbr")
C5_Witness ==
    /\ pc = "done"
    /\ \E k \in DOMAIN promises : AllRejected(promises[k]) /\ k + 1 < Len(requests)
    /\ Has(Ev("valid", Len(requests) - 1))

\* C6: when `requests` is absent or a string that does not parse as JSON, the
\* request ends with the single response 400 Missing parameter "requests",
\* buffering mode is never entered and nothing else is done: no sub-request is
\* skipped, validated or processed.
C6_MissingRequestsRejected ==
    (payload \in {"absent", "unparsable"} /\ pc # "recv") =>
        /\ pc = "rejected"
        /\ socket = <<MissingRequests>>
        /\ ~blocked
        /\ log = <<Ev("respond", 400)>>
C6_Witness == payload = "unparsable" /\ pc = "rejected" /\ socket = <<MissingRequests>>

\* C7: in eager mode, once the pipeline is past its eager-response step, 200
\* Success is on the socket and is the first thing the pipeline did: it precedes
\* the entry into buffering mode and every Validator call.
C7_EagerRespondsFirst ==
    (~safe /\ Parses /\ pc \notin {"recv", "eager"}) =>
        /\ socket = <<Success>>
        /\ Len(log) >= 1
        /\ log[1] = Ev("respond", 200)
        /\ \A n \in DOMAIN log : log[n].ev \in {"block", "validate"} => n > 1
C7_Witness == ~safe /\ pc = "done" /\ \E k \in DOMAIN promises : Has(Ev("validate", k))

\* C8: in safe mode a 200 response is written only after buffering mode has been
\* left with every index passed: each sub-request was skipped or has had its
\* /sdk/end dispatch call back before the write.
C8_SafeDefersSuccess ==
    safe =>
        \A n \in DOMAIN log :
            log[n] = Ev("respond", 200) =>
                /\ \E m \in 1..(n - 1) : log[m] = Ev("unblock", Len(requests))
                /\ i = Len(requests)
                /\ ~blocked
                /\ \A k \in DOMAIN promises :
                      \E m \in 1..(n - 1) : log[m] \in {Ev("skip", k), Ev("sdkdone", k)}
                /\ \A k \in DOMAIN promises :
                      Has(Ev("validate", k)) =>
                          \E m \in 1..(n - 1) : log[m] = Ev("sdkdone", k)
C8_Witness ==
    /\ safe
    /\ socket = <<Success>>
    /\ \E k \in DOMAIN promises : Has(Ev("sdkdone", k))
    /\ \E k \in DOMAIN promises : Has(Ev("skip", k))

\* a sub-request the code is to skip is about to be handled
SkipCase ==
    /\ pc = "pbr" /\ i < Len(requests) /\ log' # log
    /\ \/ (Elem(i).app_key = NoValue /\ appKey = NoValue)
       \/ Elem(i).device_id = NoValue
C9_SkipStep ==
    SkipCase =>
        /\ i' = i + 1
        /\ pc' = "pbr"
        /\ log' = Append(log, Ev("skip", i))
        /\ UNCHANGED <<socket, recorded, finished, blocked, promises>>
\* C9: a step of processBulkRequest on a sub-request with neither an own nor a
\* shared app_key, or with no device_id, only moves on to the next index: no
\* response is written or recorded, the Validator is not called for it, the
\* pipeline does not stop.
C9_SkippedNotValidated == [][C9_SkipStep]_vars
C9_Witness ==
    /\ pc = "done"
    /\ Len(socket) = 1
    /\ \E k \in DOMAIN tmpParams : Has(Ev("skip", k)) /\ tmpParams[k].built
    /\ \E k \in DOMAIN tmpParams : Has(Ev("skip", k)) /\ ~tmpParams[k].built

\* a skip step that leaves req.body equal to `body`, derives no app_user_id and
\* leaves the response state, the promises and the shared app key alone
C10_SkipChanges(body) ==
    SkipCase =>
        /\ reqBody' = body
        /\ tmpParams'[i].app_user_id = NoId
        /\ UNCHANGED <<socket, recorded, finished, blocked, promises, appKey>>
        /\ i' = i + 1 /\ pc' = "pbr"
\* a skipped sub-request is never validated nor completed, and the sub-requests
\* are started in array order, none left out
C10_Order ==
    /\ \A k \in DOMAIN tmpParams :
          Has(Ev("skip", k)) => /\ tmpParams[k].app_user_id = NoId
                                /\ ~Has(Ev("validate", k))
                                /\ ~Has(Ev("sdkend", k))
    /\ \A k \in DOMAIN tmpParams :
          k < i => Has(Ev("skip", k)) \/ Has(Ev("validate", k))
    /\ \A m, n \in DOMAIN log :
          (m < n /\ log[m].ev \in {"skip", "validate"} /\ log[n].ev \in {"skip", "validate"})
             => log[m].i < log[n].i
\* C10 as stated: a skip leaves the state shared across the batch unchanged,
\* the shared request body included, derives no app_user_id and dispatches no
\* /sdk/end, and the sub-requests after it are processed in array order.
C10_SkipLeavesSharedState == [][C10_SkipChanges(reqBody)]_vars /\ []C10_Order

\* C10 amended: a skip derives no app_user_id, calls neither the Validator nor
\* /sdk/end, leaves the response state alone, and the sub-requests after it are
\* started in array order; the shared request body is unchanged only when the
\* skip is for a missing app key: a sub-request with an app key and no device_id
\* has already replaced req.body by its own JSON text.
C10_SkipFrame ==
    /\ [][C10_SkipChanges(IF Elem(i).app_key = NoValue /\ appKey = NoValue
                          THEN reqBody ELSE stringify(Elem(i)))]_vars
    /\ []C10_Order
C10_Witness ==
    /\ pc = "done"
    /\ \E k \in DOMAIN tmpParams :
          /\ Has(Ev("skip", k)) /\ tmpParams[k].built
          /\ Has(Ev("validate", k + 1))

\* ------------------------------------------------------------ relay claims
\* positions of the handler's sends, and of its sends to worker w
Sends(ops) == {k \in DOMAIN ops : ops[k].op = "send"}
SendsTo(ops, w) == {k \in DOMAIN ops : ops[k].op = "send" /\ ops[k].to = w}
Locals(ops) == {k \in DOMAIN ops : ops[k].op # "send"}
\* this step is the master handling a message with command cmd
MasterHandles(cmd) == relay' # relay /\ relay'.side = "master" /\ relay'.msg.cmd = cmd
PluginCmds == {"checkPlugins", "startPlugins", "endPlugins"}
PluginAction(cmd) ==
    IF cmd = "checkPlugins" THEN "checkPluginsMaster"
    ELSE IF cmd = "startPlugins" THEN "startSyncing" ELSE "stopSyncing"

\* C11: when the master handles a log-configuration message from a worker of the
\* active set (initial or replacement), it sends exactly one log message carrying
\* that configuration to every other worker of the set, none to the sender, and
\* after the sends applies the message to its own logging state, once.
C11_LogFanOut ==
    [][MasterHandles("log") =>
         LET ops == relay'.ops
             fwd == ControlMsg("log", relay'.msg.config, NoField)
         IN /\ relay'.who \in Range(workers)
            /\ \A w \in Range(workers) \ {relay'.who} :
                  /\ Cardinality(SendsTo(ops, w)) = 1
                  /\ \A k \in SendsTo(ops, w) : ops[k].msg = fwd
            /\ SendsTo(ops, relay'.who) = {}
            /\ \A k \in Sends(ops) : ops[k].to \in Range(workers)
            /\ Locals(ops) = {Len(ops)}
            /\ ops[Len(ops)] = Local("ipcHandler", relay'.msg)]_vars
C11_Witness ==
    /\ relay.side = "master"
    /\ relay.msg.cmd = "log"
    /\ relay.who \in Range(workers) /\ relay.who > desiredCount
    /\ \E w \in Range(workers) : w <= desiredCount /\ SendsTo(relay.ops, w) # {}
    /\ Len(relay.ops) = Len(workers)

\* C12: when the master handles a dispatch message whose event is non-empty, it
\* forwards that message exactly once to every worker of the active set, the
\* sender included, and does nothing else.
C12_DispatchToAll ==
    [][(MasterHandles("dispatch") /\ relay'.msg.event # NoField) =>
         LET ops == relay'.ops
         IN /\ \A w \in Range(workers) : Cardinality(SendsTo(ops, w)) = 1
            /\ \A k \in DOMAIN ops : ops[k].op = "send" /\ ops[k].msg = relay'.msg
                                     /\ ops[k].to \in Range(workers)]_vars
C12_Witness ==
    /\ relay.side = "master"
    /\ relay.msg.cmd = "dispatch" /\ relay.msg.event # NoField
    /\ relay.who \in Range(workers)
    /\ Len(workers) >= 2
    /\ Len(relay.ops) = Len(workers)
    /\ SendsTo(relay.ops, relay.who) # {}

\* C13: a dispatch message whose event is missing or empty is ignored on both
\* sides: the master's handler forwards it to no worker (it does nothing), and a
\* worker receiving it dispatches no extension event.
C13_EmptyEventIgnored ==
    (relay.msg.cmd = "dispatch" /\ relay.msg.event = NoField) =>
        /\ relay.side = "master" => relay.ops = <<>>
        /\ relay.side = "worker" => \A k \in DOMAIN relay.ops : relay.ops[k].op # "dispatch"
C13_Witness ==
    /\ relay.side = "master"
    /\ relay.msg.cmd = "dispatch" /\ relay.msg.event = NoField
    /\ relay.who \in Range(workers)
    /\ Len(workers) >= 2

\* C14: handling a plugin-check, sync-start or sync-stop message sends nothing to
\* any worker: only the matching local plugin action runs, once; and no message
\* handler of any kind changes the workers array, the listeners or the fork count.
C14_PluginRelaysLocal ==
    [][/\ \A cmd \in PluginCmds :
            MasterHandles(cmd) => relay'.ops = <<Local(PluginAction(cmd), relay'.msg)>>
       /\ relay' # relay =>
            workers' = workers /\ listeners' = listeners /\ nforks' = nforks]_vars
C14_Witness ==
    /\ relay.side = "master"
    /\ relay.msg.cmd \in PluginCmds
    /\ relay.who \in Range(workers)
    /\ Len(workers) >= 2
    /\ Len(relay.ops) = 1

\* ------------------------------------------------------- dispatcher claims
\* the switch, or its else branch, has run for the request
PastSwitch == rpc \in {"validating", "promises", "ping", "bulk", "end"} /\ calls # <<>>
CallsOf(kind) == {k \in DOMAIN calls : calls[k].call = kind}
OnlyRootDispatched == calls = <<Dispatch(RootEvent, FALSE)>>
IgnoredMsg == Msg(200, "Request ignored: reason")
Missing(field) == Msg(400, "Missing parameter \"" \o field \o "\"")
Invalid(field) == Msg(400, "Invalid parameter \"" \o field \o "\"")

\* C15: when cancelRequest is set as the global "/" interception returns, nothing
\* but that interception is ever invoked for the request: no built-in handler, no
\* Validator, no bulk processing, no path-specific hook.
C15_CancelledRunsNothing ==
    cancelRequest # NoReason => /\ OnlyRootDispatched
                                /\ rpc \in {"switch", "end"}
C15_Witness ==
    /\ cancelRequest # NoReason
    /\ rpc = "end"
    /\ apiPath = <<"i">>
    /\ Truthy(qstring.app_key) /\ Truthy(qstring.device_id)

\* C16: a request cancelled at the global "/" interception has, once the
\* dispatcher is done with it, exactly one response on the socket, the one that
\* reports the cancellation, in eager mode as in safe mode.
C16_CancelledAnsweredOnce ==
    (cancelRequest # NoReason /\ rpc = "end") => socket = <<IgnoredMsg>>

\* C17: for a request whose apiPath is no built-in category, the apiPath event is
\* dispatched first, the fullPath event next and only if the apiPath event was
\* not claimed, and 400 'Invalid path' is written iff neither was claimed.
C17_DefaultFallback ==
    (PastSwitch /\ cancelRequest = NoReason /\ apiPath \notin Categories) =>
        /\ rpc = "end"
        /\ Len(calls) \in {2, 3}
        /\ calls[1] = Dispatch(RootEvent, FALSE)
        /\ calls[2].call = "dispatch" /\ calls[2].what = apiPath
        /\ Len(calls) = 3 <=> ~calls[2].claimed
        /\ Len(calls) = 3 => calls[3].call = "dispatch" /\ calls[3].what = fullPath
        /\ IF \E k \in 2..Len(calls) : calls[k].claimed
           THEN socket = <<>>
           ELSE socket = <<Msg(400, "Invalid path")>>
C17_Witness ==
    /\ rpc = "end"
    /\ apiPath = <<"x", "y">> /\ fullPath = <<"x", "y", "z">>
    /\ Len(calls) = 3
    /\ socket = <<Msg(400, "Invalid path")>>

\* the id field is present with a length other than 24; is so and is not empty
WrongLength(f) == qstring[f].def /\ Len(qstring[f].str) # IdLength
NonEmptyWrongLength(f) == WrongLength(f) /\ qstring[f].str # <<>>
IdsChecked == rpc \notin {"idle", "recv", "process"}
RejectedFor(f) == rpc = "end" /\ calls = <<>> /\ socket = <<Invalid(f)>>
\* as the spec states it: every app_id or user_id that is present with a length
\* other than 24 is rejected at once, and nothing is invoked
C18_WrongLengthRejected ==
    (IdsChecked /\ (WrongLength("app_id") \/ WrongLength("user_id"))) =>
        (RejectedFor("app_id") \/ RejectedFor("user_id"))
\* C18: a request whose app_id or user_id is a non-empty string of a length other
\* than 24 is answered 400 'Invalid parameter' at once (app_id is checked first),
\* and no extension point, Validator or handler is invoked, whatever the path.
C18_NonEmptyWrongLengthRejected ==
    /\ (IdsChecked /\ NonEmptyWrongLength("app_id")) => RejectedFor("app_id")
    /\ (IdsChecked /\ ~NonEmptyWrongLength("app_id") /\ NonEmptyWrongLength("user_id")) =>
            RejectedFor("user_id")
C18_Witness ==
    /\ rpc = "end"
    /\ url = <<"", "i", "users", "create">>
    /\ Len(qstring.app_id.str) = IdLength
    /\ Len(qstring.user_id.str) = IdLength + 1
    /\ socket = <<Invalid("user_id")>>

\* the routed category read an embedded JSON field that does not parse
UnparsableRead ==
    \/ apiPath \in {<<"i", "users">>, <<"i", "apps">>}
          /\ Truthy(qstring.args) /\ ~Parsable(qstring.args.str)
    \/ apiPath = <<"i">> /\ Truthy(qstring.app_key) /\ Truthy(qstring.device_id)
          /\ Truthy(qstring.events) /\ ~Parsable(qstring.events.str)
    \/ apiPath = <<"o">> /\ Truthy(qstring.app_id) /\ qstring.method = Str(<<"events">>)
          /\ Truthy(qstring.events) /\ ~Parsable(qstring.events.str)
\* C19: on /i/users, /i/apps (args), /i and /o (events), an embedded JSON value
\* that does not parse blocks routing: a 400 is the one response written, and
\* neither the Validator nor a handler is invoked.
C19_UnparsableBlocksRouting ==
    (PastSwitch /\ cancelRequest = NoReason /\ UnparsableRead) =>
        /\ CallsOf("validator") = {} /\ CallsOf("handler") = {}
        /\ Len(socket) = 1 /\ socket[1].status = 400

\* the field the routed category requires is missing (undefined or empty)
MissingRequired ==
    IF apiPath = <<"i">> THEN ~Truthy(qstring.app_key) \/ ~Truthy(qstring.device_id)
    ELSE IF apiPath = <<"i", "tasks">> THEN ~Truthy(qstring.task_id)
    ELSE IF apiPath \in {<<"o", "system">>, <<"o", "export">>} THEN ~Truthy(qstring.api_key)
    ELSE IF apiPath \in {<<"o">>, <<"o", "analytics">>} THEN ~Truthy(qstring.app_id)
    ELSE FALSE
MissingMsg ==
    IF apiPath = <<"i">> THEN Msg(400, "Missing parameter \"app_key\" or \"device_id\"")
    ELSE IF apiPath = <<"i", "tasks">> THEN Missing("task_id")
    ELSE IF apiPath \in {<<"o", "system">>, <<"o", "export">>} THEN Missing("api_key")
    ELSE Missing("app_id")
\* C20: a routed request that lacks the field its category requires is answered
\* 400 'Missing parameter', and after the global "/" interception nothing is
\* invoked for it: no Validator, no handler, no path-specific hook.
C20_MissingFieldRejected ==
    (PastSwitch /\ cancelRequest = NoReason /\ MissingRequired) =>
        /\ rpc = "end"
        /\ OnlyRootDispatched
        /\ socket = <<MissingMsg>>
C20_Witness ==
    /\ rpc = "end"
    /\ cancelRequest = NoReason
    /\ apiPath = <<"i", "tasks">>
    /\ Len(paths) = 4 /\ paths[4] = "delete"
    /\ ~Truthy(qstring.task_id)
    /\ socket = <<Missing("task_id")>>

\* ---------------------------------------------------- validation claims
MutatingCategories == {<<"i">>, <<"i", "users">>, <<"i", "apps">>, <<"i", "tasks">>}
\* positions in calls of the handlers and completion hooks
Completions == {k \in DOMAIN calls : calls[k].call = "handler" \/ calls[k].what = SdkEnd}
ValidatorRejected == \E k \in DOMAIN calls : calls[k] = Rejected
\* every completion follows the Validator's success, which follows its call
C21_OnlyAfterSuccess ==
    /\ apiPath \in MutatingCategories =>
          \A k \in Completions :
              \E n, m \in 1..(k - 1) : n < m /\ calls[n].call = "validator" /\ calls[m] = Valid
    /\ ValidatorRejected =>
          /\ rpc = "end"
          /\ Completions = {}
          /\ calls[Len(calls)] = Rejected
    /\ \A k \in DOMAIN promises :
          /\ \A n \in Pos(Ev("sdkend", k)) : \E m \in Pos(Ev("valid", k)) : m < n
          /\ \A n \in Pos(Ev("valid", k)) : \E m \in Pos(Ev("validate", k)) : m < n
          /\ Has(Ev("invalid", k)) => /\ pc = "stalled" /\ i = k
                                      /\ ~Has(Ev("valid", k)) /\ ~Has(Ev("sdkend", k))
\* after a rejection the dispatcher takes no step for the request
C21_NothingAfterRejection ==
    /\ ValidatorRejected => calls' = calls /\ rpc' = rpc /\ socket' = socket
    /\ pc = "stalled" => log' = log /\ i' = i /\ pc' = pc /\ socket' = socket
\* C21: on the mutating endpoints (/i, the sub-requests of /i/bulk, the sub-actions
\* of /i/users, /i/apps, /i/tasks) a handler or the /sdk/end completion hook runs
\* only after the Validator was called and answered success; when the Validator
\* rejects, no handler or hook is ever invoked and the dispatcher does nothing
\* more for the request.
C21_HandlerInsideContinuation ==
    /\ []C21_OnlyAfterSuccess
    /\ [][C21_NothingAfterRejection]_vars
C21_Witness ==
    /\ rpc = "end"
    /\ apiPath = <<"i">>
    /\ ValidatorRejected
    /\ ~safe
    /\ socket = <<Success>>

ReadCategories ==
    {<<"o", "users">>, <<"o", "apps">>, <<"o", "tasks">>, <<"o", "system">>,
     <<"o", "export">>, <<"o", "ping">>, <<"o", "token">>, <<"o">>, <<"o", "analytics">>}
ValidatorSucceeded == \E k \in DOMAIN calls : calls[k] = Valid
\* a routed read request that has been answered
ReadAnswered == apiPath \in ReadCategories /\ cancelRequest = NoReason /\ socket # <<>>
\* as the spec states it: no read endpoint answers with data or a success status
\* unless the read-authorization validation succeeded
C22_ReadsValidatedFirst ==
    (ReadAnswered /\ socket[1].status = 200) => ValidatorSucceeded
\* C22: on the read endpoints a handler runs, and its output is written, only
\* after a read-authorization Validator was called and succeeded; the answers
\* given without a successful validation are the 400 parameter and path errors,
\* the Validator's own 401, the liveness answer of /o/ping (200 or 404, no
\* Validator at all) and the empty object of /o?method=cities when city data is
\* disabled.
C22_HandlersValidatedFirst ==
    /\ apiPath \in ReadCategories =>
          \A k \in Completions :
              \E n, m \in 1..(k - 1) : n < m /\ calls[n].call = "validator" /\ calls[m] = Valid
    /\ (ReadAnswered /\ ~ValidatorSucceeded) =>
          /\ Len(socket) = 1
          /\ \/ socket[1].status \in {400, 401}
             \/ apiPath = <<"o", "ping">> /\ CallsOf("validator") = {}
                   /\ socket[1] \in {Msg(200, "Success"), Msg(404, "DB Error")}
             \/ apiPath = <<"o">> /\ qstring.method = Str(<<"cities">>)
                   /\ CallsOf("validator") = {} /\ socket[1] = Msg(200, "{}")
    /\ (ReadAnswered /\ ValidatorSucceeded) => socket = <<Msg(200, "output")>>
C22_Witness ==
    /\ rpc = "end"
    /\ apiPath = <<"o", "ping">>
    /\ socket = <<Msg(200, "Success")>>
    /\ CallsOf("validator") = {}

\* ----------------------------------------------- ResponseCoordinator claims
WriteEv(status) == [ev |-> "write", i |-> status]
Writes == {n \in DOMAIN log : log[n].ev = "write"}
NeverBuffered == \A n \in DOMAIN log : log[n].ev # "block"
\* at most one write is on the socket, the context is answered iff one is, and
\* outside buffering mode it is the first write that was made
C23_FirstWriteOnly ==
    /\ Len(socket) <= 1
    /\ finished <=> socket # <<>>
    /\ (pc = "rc" /\ NeverBuffered /\ Writes # {}) =>
          \E n \in Writes : /\ \A m \in Writes : n <= m
                            /\ socket = <<Msg(log[n].i, "body")>>
\* a step writes the socket only on a context that is not answered yet
C23_WriteGuarded == socket' # socket => ~finished /\ finished' /\ socket' = <<socket'[1]>>
\* C23: a write on an answered context is a no-op: over any sequence of writes on
\* one context, outside buffering mode, exactly the first reaches the socket; and
\* every step of the dispatcher (bulk eager and final 200, the /i eager 200, the
\* 400s) writes the socket only while the context is not answered.
C23_WriteOnce ==
    /\ []C23_FirstWriteOnly
    /\ [][C23_WriteGuarded]_vars
C23_Witness ==
    /\ pc = "rc"
    /\ NeverBuffered
    /\ Len(log) = 3
    /\ log[1] = WriteEv(400) /\ log[2] = WriteEv(200)
    /\ socket = <<Msg(400, "body")>>

\* C24: while buffering mode is active no step writes the socket; leaving
\* buffering mode flushes at most one recorded write, the most recent one, and
\* only if the context was not answered before (a write made after the flush is
\* then a no-op); so the socket of a batch is written at most once whatever the
\* sub-requests' outcomes.
C24_BufferedWrites ==
    [][/\ (blocked /\ blocked') => (socket' = socket /\ finished' = finished)
       /\ (blocked /\ ~blocked') =>
             /\ recorded' = <<>>
             /\ finished => socket' = socket
             /\ (recorded # <<>> /\ ~finished) => socket' = <<recorded[Len(recorded)]>>
       /\ Len(socket') <= 1]_vars
C24_Witness ==
    /\ pc = "rc"
    /\ ~blocked
    /\ Len(log) = 4
    /\ log[1].ev = "block" /\ log[2] = WriteEv(400) /\ log[3] = WriteEv(200)
    /\ log[4].ev = "unblock"
    /\ socket = <<Msg(200, "body")>>

\* ------------------------------------------------------- app_user_id claims
\* both paths have derived their id
BothDerived == pc = "derived" /\ rpc = "derived"
BulkKey == ResolveKey(Elem(0).app_key, appKey)
BulkDevice == Elem(0).device_id
BulkId == tmpParams[0].app_user_id
IngestKey == qstring.app_key.str
IngestDevice == qstring.device_id.str
BothIdsPresent ==
    /\ BothDerived
    /\ BulkKey # NoValue /\ BulkDevice # NoValue
    /\ Truthy(qstring.app_key) /\ Truthy(qstring.device_id)
\* C25: app_user_id is the hash of app_key followed by device_id on both paths:
\* the bulk path and the single-ingest path give the same id for the same pair, a
\* sub-request's own app_key takes precedence over the shared one, and the ids the
\* pipelines store are that function of the stored key and device id.
C25_SameIdOnBothPaths ==
    /\ BothIdsPresent =>
          /\ BulkId = sha1hex(BulkKey \o BulkDevice)
          /\ app_user_id = sha1hex(IngestKey \o IngestDevice)
          /\ (BulkKey = IngestKey /\ BulkDevice = IngestDevice) => BulkId = app_user_id
          /\ Elem(0).app_key # NoValue => tmpParams[0].app_key = Elem(0).app_key
    /\ (BothDerived /\ (BulkKey = NoValue \/ BulkDevice = NoValue)) => BulkId = NoId
    /\ pc \notin {"id", "derived", "idle", "rc"} =>
          \A k \in DOMAIN tmpParams :
              tmpParams[k].app_user_id # NoId =>
                  /\ tmpParams[k].app_user_id =
                        sha1hex(tmpParams[k].app_key \o tmpParams[k].device_id)
                  /\ tmpParams[k].app_key = requests[k + 1].app_key
    /\ (rpc \notin {"id", "derived", "idle"} /\ app_user_id # NoId) =>
          app_user_id = sha1hex(qstring.app_key.str \o qstring.device_id.str)
C25_Witness ==
    /\ BothIdsPresent
    /\ Elem(0).app_key = "ab" /\ appKey = "a"
    /\ IngestKey = "ab" /\ IngestDevice = "c" /\ BulkDevice = "c"
    /\ BulkId = app_user_id

\* C26: two different (app_key, device_id) pairs have different app_user_ids (the
\* hash being injective on the string it is given).
C26_DifferentPairsDifferentIds ==
    (BothIdsPresent /\ <<BulkKey, BulkDevice>> # <<IngestKey, IngestDevice>>) =>
        BulkId # app_user_id

\* ------------------------------------------------------ classification claims
RootDispatches == {k \in DOMAIN calls : calls[k].call = "dispatch" /\ calls[k].what = RootEvent}
\* C27: for a request that passed the id-length checks the global "/" event is
\* dispatched exactly once: it is the first thing invoked, apiPath and fullPath
\* are set by then, and no routing, Validator call or handler comes before it.
C27_RootDispatchedOnce ==
    (IdsChecked /\ rpc # "root" /\ calls # <<>>) =>
        /\ calls[1] = Dispatch(RootEvent, FALSE)
        /\ apiPath = ApiPathOf(paths) /\ fullPath = FullPathOf(paths)
        /\ RootDispatches = {1}

\* the segments of the request path after its leading "/", the configured prefix
\* dropped once when the first segment is that prefix
Remaining ==
    IF Len(url) >= 2 /\ configPath = <<url[2]>> THEN Tail(Tail(url)) ELSE Tail(url)
FirstTwo(segs) == [k \in 1..(IF Len(segs) < 2 THEN Len(segs) ELSE 2) |-> segs[k]]
\* C28: once the request is classified, apiPath is "/" plus the first two segments
\* (fewer when there are fewer) of the request path with the configured root
\* prefix removed when the first segment equals it, fullPath is the whole
\* remaining path, and the prefix is removed at most once.
C28_Classification ==
    (IdsChecked /\ (rpc = "end" => calls # <<>>)) =>
        /\ apiPath = FirstTwo(Remaining)
        /\ fullPath = Remaining
        /\ Len(paths) >= Len(url) - 1
C28_Witness ==
    /\ rpc = "switch"
    /\ configPath = <<"countly">>
    /\ url = <<"", "countly", "countly", "o">>
    /\ apiPath = <<"countly", "o">>
    /\ fullPath = <<"countly", "o">>

\* ------------------------------------------------------------ respawn claims
\* positions of worker w in the array ws
PositionsOf(ws, w) == {k \in DOMAIN ws : ws[k] = w}
\* this step is the master relaying a message
RelayStep == relay' # relay /\ relay'.side = "master"
\* this step is the master handling the exit of worker w
ExitStep(w) == w \notin handled /\ w \in handled'
\* as the spec states it: no relay iterates a workers array that holds a worker
\* that has exited, or whose size is not the desired count
C29_NoRelayOverExited ==
    [][RelayStep => /\ Range(workers) \cap exited = {}
                    /\ Len(workers) = desiredCount]_vars
\* the exit handler removes the worker and appends one new worker in one step
C29_AtomicReplace ==
    \A w \in 1..(MaxWorkers + MaxExits) :
        ExitStep(w) =>
            /\ handled' = handled \cup {w}
            /\ Cardinality(PositionsOf(workers, w)) = 1
            /\ PositionsOf(workers', w) = {}
            /\ nforks' = nforks + 1
            /\ workers' = Append(FilterOut(workers, w), nforks')
            /\ Len(workers') = Len(workers)
\* C29: the exit handler removes the exited worker and inserts its replacement in
\* one step of the master; a worker whose exit was handled is never in the array
\* again, and every relay iterates an array of desiredCount workers none of whose
\* exits has been handled. (A worker that has terminated stays in the array, and
\* is still sent to, until the master handles its exit event.)
C29_ReplaceAtomically ==
    /\ [][C29_AtomicReplace]_vars
    /\ [][RelayStep => /\ Range(workers) \cap handled = {}
                       /\ Len(workers) = desiredCount]_vars
    /\ [](Range(workers) \cap handled = {})
C29_Witness ==
    /\ relay.side = "master"
    /\ Len(relay.ops) >= 2
    /\ \E w \in pendingExit : w \in Range(workers) /\ SendsTo(relay.ops, w) # {}
    /\ handled # {}

\* C30: a worker that terminated (its uncaughtException handler calls
\* process.exit(1)) is replaced: the master handles each exit by forking exactly
\* one worker, so every exit leads to a pool of desiredCount workers without the
\* exited one, and the master keeps running.
C30_CrashReplaced ==
    /\ (pendingExit # {}) ~> (pendingExit = {} /\ Len(workers) = desiredCount
                              /\ Range(workers) \cap exited = {})
    /\ [][\A w \in 1..(MaxWorkers + MaxExits) :
             ExitStep(w) => nforks' = nforks + 1 /\ Len(workers') = desiredCount]_vars
    /\ [][mpc = "running" => mpc' = "running"]_vars
C30_Witness ==
    /\ mpc = "running"
    /\ pendingExit = {}
    /\ Cardinality(exited) >= 2
    /\ Len(workers) = desiredCount
    /\ nforks = desiredCount + Cardinality(exited)

\* ------------------------------------------------- bulk buffering claims
\* positions of the log where the pipeline did `what`
PosOf(what) == {n \in DOMAIN log : log[n].ev = what}
\* every sub-request started (skipped or handed to the Validator) was started
\* while buffering, and buffering is left at most once, by the call of
\* processBulkRequest that finds every index passed
BufferingAroundSubRequests ==
    /\ \A n \in PosOf("skip") \cup PosOf("validate") :
          /\ \E m \in PosOf("block") : m < n
          /\ \A m \in PosOf("unblock") : n < m
    /\ Cardinality(PosOf("block")) <= 1
    /\ Cardinality(PosOf("unblock")) <= 1
    /\ \A n \in PosOf("unblock") :
          /\ log[n].i = Len(requests)
          /\ \E m \in PosOf("block") : m < n
          /\ \A k \in DOMAIN promises :
                \E m \in 1..(n - 1) : log[m] \in {Ev("skip", k), Ev("sdkdone", k)}
    /\ blocked <=> (PosOf("block") # {} /\ PosOf("unblock") = {})
C33_EveryBlockUnblocked ==
    (AtRest /\ PosOf("block") # {}) =>
        /\ ~blocked
        /\ Cardinality(PosOf("unblock")) = Cardinality(PosOf("block"))

\* C34: each sub-request is started at most once, and one that passed validation
\* has /sdk/end dispatched at most once, exactly once when the pipeline is past
\* its promises, and the pipeline advances past it at most once, whether its
\* promises resolve or reject or resolver throws.
C34_OneCompletionPerSubRequest ==
    \A k \in DOMAIN promises :
        /\ Cardinality(Pos(Ev("skip", k))) + Cardinality(Pos(Ev("validate", k))) <= 1
        /\ Has(Ev("valid", k)) =>
              /\ Cardinality(Pos(Ev("sdkend", k))) <= 1
              /\ Cardinality(Pos(Ev("sdkdone", k))) <= 1
              /\ (k < i \/ pc \in {"sdkend", "done"}) =>
                    Cardinality(Pos(Ev("sdkend", k))) = 1

\* C36: a `requests` payload that parses to a truthy value that is no array is
\* neither validated nor processed, the worker goes on, and the request ends
\* with buffering mode left and one response on the socket.
C36_NonArrayAnswered ==
    (payload = "object" /\ pc \notin {"recv", "eager", "block"}) =>
        /\ PosOf("validate") = {} /\ PosOf("skip") = {}
        /\ pc # "crashed"
        /\ pc \notin {"pbr"} => ~blocked /\ Len(socket) = 1

\* ------------------------------------------------------ single-ingest claim
\* the request is a single ingest that carried app_key and device_id
IngestStarted ==
    apiPath = <<"i">> /\ Validate("validateAppForWriteAPI") \in Range(calls)
\* this step dispatches /sdk/end for the single ingest
IngestCompletes == rpc = "promises" /\ rpc' = "end"
\* C35: a single ingest with app_key and device_id gets at most one response; in
\* eager mode it is the 200 Success written as soon as the Validator was started,
\* whatever the Validator answers later; /sdk/end is dispatched only when the
\* Validator succeeded and every promise of params.promises has settled.
C35_IngestAnsweredOnce ==
    /\ [](IngestStarted => /\ Len(socket) <= 1
                           /\ ~safe => socket = <<Success>>)
    /\ [][IngestCompletes => /\ Valid \in Range(calls)
                             /\ promises[0].pending = 0]_vars

\* ------------------------------------------------------- request method claim
\* this step starts processRequest
ProcessStarts == rpc # "process" /\ rpc' = "process"
\* processRequest has started
ProcessStarted == rpc \notin {"recv", "parsing"} /\ reqMethod # "OPTIONS"
\* C32: processRequest of a POST starts in the step that has copied the parsed
\* body fields over the query fields of the same name, and works on the merged
\* fields from then on; processRequest of a GET starts as soon as the request is
\* received; in both cases it starts once and never again, and an OPTIONS
\* request is answered without it.
C32_ProcessAfterMerge ==
    /\ [][ProcessStarts =>
             /\ reqMethod = "POST" =>
                   /\ rpc = "parsing"
                   /\ \A f \in DOMAIN fields :
                         qstring'[f] = IF fields[f].def THEN fields[f] ELSE qstring[f]
             /\ reqMethod = "GET" => rpc = "recv" /\ qstring' = qstring]_vars
    /\ [][rpc \notin {"recv", "parsing"} => ~ProcessStarts]_vars
    /\ [][(rpc = "recv" /\ rpc' # rpc) =>
             rpc' = CASE reqMethod = "GET" -> "process"
                      [] reqMethod = "POST" -> "parsing"
                      [] reqMethod = "OPTIONS" -> "end"]_vars
    /\ [][(rpc = "parsing" /\ rpc' # rpc) => ProcessStarts]_vars
    /\ []((reqMethod = "POST" /\ ProcessStarted) =>
             \A f \in DOMAIN fields : fields[f].def => qstring[f] = fields[f])
    /\ [](reqMethod = "OPTIONS" => calls = <<>> /\ rpc \in {"recv", "end"})
C32_Witness ==
    /\ reqMethod = "POST"
    /\ rpc = "end"
    /\ fields.app_key = Str(<<"w">>)
    /\ qstring.app_key = Str(<<"w">>)
    /\ qstring.device_id = Str(<<"v">>)
    /\ ~fields.device_id.def
    /\ Dispatch(SdkEnd, FALSE) \in Range(calls)
====
